---- MODULE Spec2Model ----
(***************************************************************************)
(* Candidate resolution and pagination of the Google Scholar scraper       *)
(* (src/scraper.py, class GoogleScholarScraper).                           *)
(*                                                                         *)
(* Three specifications share this module:                                 *)
(*   SpecSelect  _select_preferred_candidate applied to candidate lists    *)
(*   SpecPaper   the candidate list of one paper through the row scan,     *)
(*               the detail-page pass and the mirror lookup                *)
(*   SpecScrape  the pagination loop of _scrape_papers against a paged     *)
(*               source                                                    *)
(***************************************************************************)
EXTENDS Integers, Sequences, FiniteSets, TLC

VARIABLES
  sel_pc,       \* SpecSelect: "call" | "returned"
  sel_in,       \* SpecSelect: the candidate list passed to the selector
  sel_out,      \* SpecSelect: the candidate returned (NoCandidate for None)
  sel_first,    \* SpecSelect: result of the first call, and whether reordered since
  pp_pc,        \* SpecPaper: "row" | "second" | "mirror" | "done"
  pp_row,       \* SpecPaper: the links of the profile row, in document order
  pp_has_link,  \* SpecPaper: the title anchor of the row has an href
  pp_has_title, \* SpecPaper: the row has a title
  paper_data,   \* SpecPaper: doi, download_link, download_candidates, year, citation_trend
  pp_offers,    \* SpecPaper: every registration that reached the list, in order
  pp_detail,    \* SpecPaper: what the visits of the detail page returned
  final_download_link,  \* SpecPaper: debug_record['final_download_link']
  sp_pc,        \* SpecScrape: where _scrape_papers stands
  max_papers,   \* SpecScrape: self.max_papers
  source_rows,  \* SpecScrape: the titles of all rows of the source
  page_rows,    \* SpecScrape: the number of tr.gsc_a_tr rows on the page
  page_pending, \* SpecScrape: rows requested by a click, not yet rendered
  papers,       \* SpecScrape: the papers collected (their titles)
  seen_titles,  \* SpecScrape: the dedup keys seen
  count_before_load,    \* SpecScrape: local of _scrape_papers
  papers_on_page_count, \* SpecScrape: local of _scrape_papers
  stable_obs,   \* SpecScrape: consecutive row counts read without growth
  last_pass,    \* SpecScrape: len(new_papers) and remaining of the last pass
  sp_exit,      \* SpecScrape: the break that ended the loop
  load_failed,  \* SpecScrape: a load returned False with rows still hidden
  sp_passes,    \* SpecScrape: the runs of the body of the while loop
  ch_pc,        \* SpecChain: where scrape_profile's loop and the chain stand
  ch_total,     \* SpecChain: len(selected)
  ch_n,         \* SpecChain: idx, the number of the paper in process
  ch_paper,     \* SpecChain: the API paper object in process
  download_link,      \* SpecChain: local of _extract_paper_metadata
  ch_papers,    \* SpecChain: papers, by the idx of each paper appended
  _validation_cache,  \* SpecChain: self._validation_cache
  calls,        \* SpecChain: the _validate_pdf_link calls awaited
  found_links,  \* SpecChain: local of _extract_pdf_from_paper_page
  seq_idx,      \* SpecChain: index of the link validated after the batch
  probes,       \* SpecChain: HEAD probes started for each URL in the run
  stages_run,   \* SpecChain: stages entered for the paper in process
  ch_hit,       \* SpecChain: the first stage that gave a validated link
  ch_raised,    \* SpecChain: the last stage that raised for the paper in process
  paper_dict,   \* SpecChain: what _extract_paper_metadata returned
  last_call,    \* SpecChain: the last _validate_pdf_link call that returned
  ch_counted,   \* SpecChain: increments of stats["download_links_found"] for the paper
  ft_pc,        \* SpecFetch: "call" | "sleep" | "returned" | "raised"
  ft_target,    \* SpecFetch: target_count
  ft_attempt,   \* SpecFetch: attempt
  ft_calls,     \* SpecFetch: the outcome of every call of collect, in order
  ft_waits,     \* SpecFetch: the time.sleep calls made, in order
  ft_return,    \* SpecFetch: the list returned
  ft_error,     \* SpecFetch: the exception that left the function
  fn_pc,        \* SpecFn: "call" | "returned"
  fn_name,      \* SpecFn: the function called
  fn_arg,       \* SpecFn: its arguments and what its collaborators give
  fn_res,       \* SpecFn: what it returned
  jobs,         \* SpecServer: the jobs dict, job k of the server at index k
  tasks,        \* SpecServer: the task of run_scrape_job of every job
  loop_thread,  \* SpecServer: the job whose task keeps the thread of the
                \* event loop inside a blocking call, 0 when the loop is free
  last_response \* SpecServer: what the last HTTP request was answered

selVars == <<sel_pc, sel_in, sel_out, sel_first>>
paperVars ==
  <<pp_pc, pp_row, pp_has_link, pp_has_title, paper_data, pp_offers, pp_detail,
    final_download_link>>
scrapeVars ==
  <<sp_pc, max_papers, source_rows, page_rows, page_pending, papers,
    seen_titles, count_before_load, papers_on_page_count, stable_obs,
    last_pass, sp_exit, load_failed, sp_passes>>
chainVars ==
  <<ch_pc, ch_total, ch_n, ch_paper, download_link, ch_papers, _validation_cache,
    calls, found_links, seq_idx, probes, stages_run, ch_hit, ch_raised,
    paper_dict, last_call, ch_counted>>
fetchVars ==
  <<ft_pc, ft_target, ft_attempt, ft_calls, ft_waits, ft_return, ft_error>>
fnVars == <<fn_pc, fn_name, fn_arg, fn_res>>
srvVars == <<jobs, tasks, loop_thread, last_response>>
vars ==
  <<selVars, paperVars, scrapeVars, chainVars, fetchVars, fnVars, srvVars>>

\* no HTTP request was answered yet
NoResponse == [code |-> 0, status |-> "", percentage |-> 0]

\* the server while another part of the program is looked at: no job
ServerIdle ==
  /\ jobs = <<>>
  /\ tasks = <<>>
  /\ loop_thread = 0
  /\ last_response = NoResponse

(***************************************************************************)
(* URLs.  A URL is a sequence of tokens; a substring test of the code is a *)
(* test on the tokens, after lower-casing where the code lower-cases.      *)
(***************************************************************************)

\* the place of a token in the order of Python's string comparison
TokRank(t) ==
  LET TokOrder ==
  << " ", ".PDF", ".pdf", "/", "//", "/10.1234/x", "/abs", "/citations?",
     "/index", "/paper", "/scholar?oi=", "/scholar_url", "arxiv.org",
     "doi.org", "example.org", "http://", "https://", "httpx", "javascript:",
     "pdf",
     "scholar.google.com", "scholar.googleusercontent.com", "sci-hub.se",
     "user=abc", "view_op=view_citation" >>
  IN CHOOSE i \in 1..Len(TokOrder) : TokOrder[i] = t

\* str.lower() on one token
LowerTok(t) ==
  IF t = ".PDF" THEN ".pdf"
  ELSE IF t = "PDF" THEN "pdf"
  ELSE IF t = "DOI=" THEN "doi="
  ELSE IF t = "A" THEN "a"
  ELSE t

\* str.lower()
Lower(u) == [i \in 1..Len(u) |-> LowerTok(u[i])]

\* u < v for two strings
RECURSIVE UrlLess(_, _)
UrlLess(u, v) ==
  IF v = <<>> THEN FALSE
  ELSE IF u = <<>> THEN TRUE
  ELSE IF Head(u) # Head(v) THEN TokRank(Head(u)) < TokRank(Head(v))
  ELSE UrlLess(Tail(u), Tail(v))

\* pat in u, for a pattern that lies within one token
HasTok(u, toks) == \E i \in 1..Len(u) : u[i] \in toks

\* pat in u, for a pattern that spans the end of token a and the start of b
HasPair(u, a, b) == \E i \in 1..(Len(u) - 1) : u[i] = a /\ u[i + 1] = b

\* u.endswith(".pdf")
EndsWithPdf(u) == Len(u) > 0 /\ u[Len(u)] = ".pdf"

\* str.strip()
RECURSIVE StripLeft(_)
StripLeft(u) == IF u # <<>> /\ Head(u) = " " THEN StripLeft(Tail(u)) ELSE u

RECURSIVE StripRight(_)
StripRight(u) ==
  IF u # <<>> /\ u[Len(u)] = " " THEN StripRight(SubSeq(u, 1, Len(u) - 1)) ELSE u

Strip(u) == StripRight(StripLeft(u))

_normalize_url(url) ==
  LET s == Strip(url)
      \* tokens that start with "/" but not with "//"
      SlashToks ==
        {"/", "/10.1234/x", "/abs", "/citations?", "/index", "/paper",
         "/scholar?oi=", "/scholar_url"}
  IN
  IF url = <<>> THEN <<>>
  ELSE IF s = <<>> THEN <<>>
  ELSE IF Head(s) = "//" THEN <<"https://">> \o Tail(s)
  ELSE IF Head(s) \in {"http://", "https://"} THEN s
  ELSE IF Head(s) \in SlashToks THEN <<"https://", "scholar.google.com">> \o s
  ELSE s

\* normalized.lower().startswith(("http://", "https://"))
IsHttp(u) == u # <<>> /\ LowerTok(Head(u)) \in {"http://", "https://"}

_is_scholar_profile_link(url) ==
  LET lower == Lower(url) IN
  IF url = <<>> THEN FALSE
  ELSE IF HasTok(lower, {"scholar.googleusercontent.com"})
          \/ HasPair(lower, "scholar.google.com", "/scholar_url") THEN FALSE
  ELSE IF ~HasTok(lower, {"scholar.google.com"}) THEN FALSE
  ELSE HasTok(lower, {"/citations?", "view_op=view_citation", "/scholar?oi="})

\* a score that puts the test of the profile link first
_score_candidate_profile_first(url, source) ==
  LET lower_url == Lower(url) IN
  IF _is_scholar_profile_link(url) THEN 9
  ELSE IF EndsWithPdf(lower_url) THEN 0
  ELSE IF HasTok(lower_url, {"scholar.googleusercontent.com"}) THEN 0
  ELSE IF HasTok(lower_url, {".pdf", "pdf", "arxiv.org"}) THEN 1
  ELSE IF source \in {"row_data", "data_clk"} THEN 2
  ELSE 3

_score_candidate(url, source) ==
  LET lower_url == Lower(url) IN
  IF EndsWithPdf(lower_url) THEN 0
  ELSE IF HasTok(lower_url, {"scholar.googleusercontent.com"}) THEN 0
  ELSE IF HasTok(lower_url, {".pdf", "pdf"}) THEN 1
  ELSE IF HasTok(lower_url, {"arxiv.org"}) THEN 1
  ELSE IF _is_scholar_profile_link(url) THEN 9
  ELSE IF source \in {"row_data", "data_clk"} THEN 2
  ELSE 3

(***************************************************************************)
(* Candidates: [url, source, score, meta].  source is the set of the tags  *)
(* that the code keeps joined with "|"; meta is the set of the <<key,      *)
(* value>> pairs of the dict.                                              *)
(***************************************************************************)

NoCandidate == [url |-> <<>>, source |-> {}, score |-> -1, meta |-> {}]

\* a sort key of the score alone
KeyLessScoreOnly(a, b) == a.score < b.score

\* the sort key (score, url) of sorted() and list.sort()
KeyLess(a, b) ==
  \/ a.score < b.score
  \/ a.score = b.score /\ UrlLess(a.url, b.url)

\* insertion of c behind every element that does not sort after it
RECURSIVE InsertSorted(_, _)
InsertSorted(c, s) ==
  IF s = <<>> THEN <<c>>
  ELSE IF KeyLess(c, Head(s)) THEN <<c>> \o s
  ELSE <<Head(s)>> \o InsertSorted(c, Tail(s))

\* sorted(s, key=(score, url)): stable
RECURSIVE SortCandidates(_)
SortCandidates(s) ==
  IF s = <<>> THEN <<>>
  ELSE InsertSorted(s[Len(s)], SortCandidates(SubSeq(s, 1, Len(s) - 1)))

\* the generator of candidates that have a url
RECURSIVE WithUrl(_)
WithUrl(s) ==
  IF s = <<>> THEN <<>>
  ELSE IF Head(s).url # <<>> THEN <<Head(s)>> \o WithUrl(Tail(s))
  ELSE WithUrl(Tail(s))

\* a for loop that takes the first candidate, profile link or not
FirstOfAny(s) == IF s = <<>> THEN NoCandidate ELSE Head(s)

\* the for loop: the first candidate that is no profile link
RECURSIVE FirstNonProfile(_)
FirstNonProfile(s) ==
  IF s = <<>> THEN NoCandidate
  ELSE IF ~_is_scholar_profile_link(Head(s).url) THEN Head(s)
  ELSE FirstNonProfile(Tail(s))

\* a selector without the final fallback to sorted_candidates[0]
SelectWithoutFallback(candidates) ==
  IF candidates = <<>> THEN NoCandidate
  ELSE FirstNonProfile(SortCandidates(WithUrl(candidates)))

_select_preferred_candidate(candidates) ==
  LET sorted_candidates == SortCandidates(WithUrl(candidates))
      found == FirstNonProfile(sorted_candidates)
  IN IF candidates = <<>> THEN NoCandidate
     ELSE IF found # NoCandidate THEN found
     ELSE IF sorted_candidates # <<>> THEN sorted_candidates[1]
     ELSE NoCandidate

(***************************************************************************)
(* SpecSelect: the selector on candidate lists, in every order.            *)
(***************************************************************************)

MaxSelLen == 3

UrlPaperPdf == <<"https://", "example.org", "/paper", ".pdf">>
UrlIndex == <<"https://", "example.org", "/index">>

\* the candidate lists _select_preferred_candidate is called with: a PDF
\* link, a page link, a profile link or an empty URL, with any score
SelLists ==
  LET UrlProfile ==
        <<"https://", "scholar.google.com", "/citations?",
          "view_op=view_citation">>
      SelCandidates ==
        [url : {UrlPaperPdf, UrlIndex, UrlProfile, <<>>},
         source : {{"row_anchor"}, {"meta"}}, score : {0, 3, 9}, meta : {{}}]
  IN UNION {[1..n -> SelCandidates] : n \in 0..MaxSelLen}

SelectIdle ==
  /\ sel_pc = "idle"
  /\ sel_in = <<>>
  /\ sel_out = NoCandidate
  /\ sel_first = <<>>

PaperIdle ==
  /\ pp_pc = "idle"
  /\ pp_row = <<>>
  /\ pp_has_link = FALSE
  /\ pp_has_title = FALSE
  /\ paper_data = [doi |-> <<>>, download_link |-> <<>>, download_candidates |-> <<>>,
                   year |-> "", citation_trend |-> <<>>]
  /\ pp_offers = <<>>
  /\ pp_detail = <<>>
  /\ final_download_link = <<>>

ScrapeIdle ==
  /\ sp_pc = "idle"
  /\ max_papers = 0
  /\ source_rows = <<>>
  /\ page_rows = 0
  /\ page_pending = 0
  /\ papers = <<>>
  /\ seen_titles = {}
  /\ count_before_load = 0
  /\ papers_on_page_count = 0
  /\ stable_obs = 0
  /\ last_pass = [new |-> 0, remaining |-> 0]
  /\ sp_exit = "none"
  /\ load_failed = FALSE
  /\ sp_passes = 0

\* a paper object before the loop has one
NoPaper == [paperId |-> "", DOI |-> <<>>]

\* the None that _extract_paper_metadata returns from its handler
NoDict == [paperId |-> "", doi |-> <<>>, download_link |-> <<"None">>]

\* self._validation_cache = {}
EmptyCache == [u \in {} |-> TRUE]

\* no stage has given a validated link
NoHit == [stage |-> "none", url |-> <<>>]

\* no call of _validate_pdf_link has returned
NoCall ==
  [url |-> <<>>, cached |-> FALSE, probed |-> FALSE,
   o |-> [kind |-> "none", status_code |-> 0, content_type |-> <<>>],
   res |-> FALSE, verified |-> "none", retried |-> FALSE]

\* no exception has left _fetch_author_papers
NoError == [cls |-> "none", status |-> 0]

ChainIdle ==
  /\ ch_pc = "idle"
  /\ ch_total = 0
  /\ ch_n = 0
  /\ ch_paper = NoPaper
  /\ download_link = <<>>
  /\ ch_papers = <<>>
  /\ _validation_cache = EmptyCache
  /\ calls = <<>>
  /\ found_links = <<>>
  /\ seq_idx = 0
  /\ probes = EmptyCache
  /\ stages_run = {}
  /\ ch_hit = NoHit
  /\ ch_raised = "none"
  /\ paper_dict = NoDict
  /\ last_call = NoCall
  /\ ch_counted = 0

FnIdle ==
  /\ fn_pc = "idle"
  /\ fn_name = "none"
  /\ fn_arg = <<>>
  /\ fn_res = <<>>

FetchIdle ==
  /\ ft_pc = "idle"
  /\ ft_target = 0
  /\ ft_attempt = 0
  /\ ft_calls = <<>>
  /\ ft_waits = <<>>
  /\ ft_return = <<>>
  /\ ft_error = NoError

InitSelect ==
  /\ sel_pc = "call"
  /\ sel_in \in SelLists
  /\ sel_out = NoCandidate
  /\ sel_first = <<>>
  /\ PaperIdle
  /\ ScrapeIdle
  /\ ChainIdle
  /\ FetchIdle
  /\ FnIdle
  /\ ServerIdle

\* a call of _select_preferred_candidate
SelectCall ==
  /\ sel_pc = "call"
  /\ sel_out' = _select_preferred_candidate(sel_in)
  /\ sel_first' = IF sel_first = <<>>
                   THEN <<[out |-> sel_out', reordered |-> FALSE]>>
                   ELSE sel_first
  /\ sel_pc' = "returned"
  /\ UNCHANGED <<sel_in, paperVars, scrapeVars,
                 chainVars, fetchVars, fnVars, srvVars>>

\* the caller passes the same candidates in another order
Reorder ==
  /\ sel_pc = "returned"
  /\ \E i, j \in 1..Len(sel_in) :
       /\ i < j
       /\ sel_in' = [k \in 1..Len(sel_in) |->
                       IF k = i THEN sel_in[j]
                       ELSE IF k = j THEN sel_in[i] ELSE sel_in[k]]
  /\ sel_first' = <<[sel_first[1] EXCEPT !.reordered = TRUE]>>
  /\ sel_pc' = "call"
  /\ UNCHANGED <<sel_out, paperVars, scrapeVars,
                 chainVars, fetchVars, fnVars, srvVars>>

NextSelect == SelectCall \/ Reorder

SpecSelect == InitSelect /\ [][NextSelect]_vars

\* C1: when the list holds a candidate with a non-empty URL that is no
\* profile link, the candidate returned is one of the list, is no profile
\* link and has the minimum score of the non-profile candidates.
C1_NeverPrefersProfile ==
  LET real == {i \in 1..Len(sel_in) :
                 /\ sel_in[i].url # <<>>
                 /\ ~_is_scholar_profile_link(sel_in[i].url)}
  IN (sel_pc = "returned" /\ real # {}) =>
       /\ \E i \in real : sel_in[i] = sel_out
       /\ ~_is_scholar_profile_link(sel_out.url)
       /\ \A i \in real : sel_out.score <= sel_in[i].score

\* a profile link with a better score than the real candidate was passed
\* over
C1_Witness ==
  /\ sel_pc = "returned"
  /\ sel_out.url # <<>>
  /\ ~_is_scholar_profile_link(sel_out.url)
  /\ \E i \in 1..Len(sel_in) :
       /\ _is_scholar_profile_link(sel_in[i].url)
       /\ sel_in[i].score < sel_out.score

\* C2: for candidates with pairwise distinct URLs, every ordering of the
\* list returns the candidate that the first ordering returned.
C2_OrderInvariant ==
  (/\ sel_pc = "returned"
   /\ \A i, j \in 1..Len(sel_in) : i # j => sel_in[i].url # sel_in[j].url)
  => sel_out = sel_first[1].out

\* a reordered list with a tie of scores returned the same candidate
C2_Witness ==
  /\ sel_pc = "returned"
  /\ sel_first[1].reordered
  /\ \A i, j \in 1..Len(sel_in) : i # j => sel_in[i].url # sel_in[j].url
  /\ \E i, j \in 1..Len(sel_in) :
       /\ i < j
       /\ sel_in[i].score = sel_in[j].score
       /\ UrlLess(sel_in[j].url, sel_in[i].url)
       /\ sel_out = sel_in[j]

\* C3: when every candidate with a URL is a profile link, one of them is
\* returned; none is returned only when no candidate has a URL.
C3_ProfileFallback ==
  LET withUrl == {i \in 1..Len(sel_in) : sel_in[i].url # <<>>}
  IN sel_pc = "returned" =>
       /\ (sel_out = NoCandidate) <=> (withUrl = {})
       /\ (/\ withUrl # {}
           /\ \A i \in withUrl : _is_scholar_profile_link(sel_in[i].url))
          => \E i \in withUrl : sel_in[i] = sel_out

\* a list of profile links only returned a profile link
C3_Witness ==
  /\ sel_pc = "returned"
  /\ Len(sel_in) >= 1
  /\ \A i \in 1..Len(sel_in) : _is_scholar_profile_link(sel_in[i].url)
  /\ _is_scholar_profile_link(sel_out.url)

(***************************************************************************)
(* SpecPaper: the candidate list of one paper.  The first pass scans the   *)
(* profile row, the second pass visits the detail page and, when that      *)
(* yields no link, the mirror service.                                     *)
(***************************************************************************)

MaxRowLinks == 2
MaxPageLinks == 1

\* what the row and the detail page can link to: a page, a PDF, a
\* relative link to the profile, a DOI link
RawUrls ==
  {UrlIndex, UrlPaperPdf, <<"/citations?", "view_op=view_citation">>,
   <<"https://", "doi.org", "/10.1234/x">>}

\* the meta dict of a link found by source: its keys are those that each
\* call site passes, its values are those of the element it was read from
MetaOf(source) ==
  LET MetaKeys ==
  CASE source = "row_anchor" -> {"text", "class"}
    [] source = "data_attr" -> {"attribute", "text"}
    [] source = "row_data" -> {"attribute"}
    [] source = "page_anchor" -> {"text", "class", "rel"}
    [] source = "meta" -> {"key"}
    [] source = "detail_fallback" -> {"strategy"}
    [] source = "scihub" -> {"domain"}
    [] OTHER -> {}
  IN {<<k, source>> : k \in MetaKeys}

\* the links of a row: anchors (href and encoded attributes) in document
\* order, then the encoded attributes of the row itself
RowLinks ==
  {s \in UNION {[1..n -> [raw : RawUrls,
                          source : {"row_anchor", "data_attr", "row_data"}]] : n \in 0..MaxRowLinks} :
     \A i, j \in 1..Len(s) : (i < j /\ s[i].source = "row_data") => s[j].source = "row_data"}

\* a DOI left as the pattern matched it
KeepPunct(doi) == doi

\* re.sub(r'[.,;:)\]]+$', '', doi)
StripPunct(doi) ==
  LET Kept == {j \in 1..Len(doi) : doi[j] \notin {".", ",", ";", ":", ")", "]"}}
  IN IF Kept = {} THEN <<>>
     ELSE SubSeq(doi, 1, CHOOSE j \in Kept : \A k \in Kept : k <= j)

\* re.search of the four patterns, in the order of the list and each at its
\* leftmost match, without regard to case. A DOI starts with the token
\* "10.1234/x" ("/10.1234/x" with the slash that ends the marker before it)
\* and runs up to the first of ? & # and whitespace.
_extract_doi_from_url(url) ==
  LET lower == Lower(url)
      At(k) == {i \in 1..(Len(url) - 1) :
                  CASE k = 1 -> lower[i] = "/doi/pdf" /\ url[i + 1] = "/10.1234/x"
                    [] k = 2 -> lower[i] = "doi.org" /\ url[i + 1] = "/10.1234/x"
                    [] k = 3 -> lower[i] \in {"doi=", "doi:"} /\ url[i + 1] = "10.1234/x"
                    [] k = 4 -> lower[i] = "/doi" /\ url[i + 1] = "/10.1234/x"}
      Hits == {k \in 1..4 : At(k) # {}}
      pattern == CHOOSE k \in Hits : \A h \in Hits : k <= h
      i == CHOOSE a \in At(pattern) : \A b \in At(pattern) : a <= b
      Stops == {j \in (i + 2)..Len(url) : url[j] \in {"?", "&", "#", " "}}
      last == IF Stops = {} THEN Len(url)
              ELSE (CHOOSE a \in Stops : \A b \in Stops : a <= b) - 1
  IN IF url = <<>> \/ Hits = {} THEN <<>>
     ELSE StripPunct(<<"10.1234/x">> \o SubSeq(url, i + 2, last))

\* register_candidate of the row scan and of the page scan: st is the pair
\* of the nonlocal candidates and seen
register_candidate(st, url, source, meta) ==
  LET normalized == _normalize_url(url) IN
  IF normalized = <<>> \/ normalized \in st.seen THEN st
  ELSE IF ~IsHttp(normalized) THEN st
  ELSE [seen |-> st.seen \cup {normalized},
        candidates |-> Append(st.candidates,
                              [url |-> normalized, source |-> {source},
                               score |-> _score_candidate(normalized, source),
                               meta |-> meta])]

\* register_download_candidate of the detail pass: no scheme test
register_download_candidate(st, url, source, meta) ==
  LET normalized == _normalize_url(url) IN
  IF normalized = <<>> \/ normalized \in st.seen THEN st
  ELSE [seen |-> st.seen \cup {normalized},
        candidates |-> Append(st.candidates,
                              [url |-> normalized, source |-> {source},
                               score |-> _score_candidate(normalized, source),
                               meta |-> meta])]

EmptyStore == [seen |-> {}, candidates |-> <<>>]

\* the loops that call register_candidate for each link found
RECURSIVE RegisterLinks(_, _)
RegisterLinks(st, links) ==
  IF links = <<>> THEN st
  ELSE RegisterLinks(
         register_candidate(st, Head(links).raw, Head(links).source,
                            MetaOf(Head(links).source)),
         Tail(links))

\* returns (best_candidate, candidates)
_collect_inline_download_candidates(row) ==
  LET candidates == SortCandidates(RegisterLinks(EmptyStore, row).candidates)
  IN [best |-> _select_preferred_candidate(candidates), candidates |-> candidates]

_collect_page_download_candidates(page) ==
  SortCandidates(RegisterLinks(EmptyStore, page.links).candidates)

\* the loop over page_level_candidates
RECURSIVE RegisterPageLevel(_, _)
RegisterPageLevel(st, cands) ==
  IF cands = <<>> THEN st
  ELSE RegisterPageLevel(
         register_download_candidate(st, Head(cands).url,
                                     CHOOSE t \in Head(cands).source : TRUE,
                                     Head(cands).meta),
         Tail(cands))

\* returns (doi, download_link, detail_candidates); the year and the
\* citation trend it also returns do not depend on the links of the page
\* and are drawn by DetailExtras
_extract_doi_and_download(page) ==
  LET st1 == RegisterPageLevel(EmptyStore, _collect_page_download_candidates(page))
      link1 == IF st1.candidates # <<>> THEN st1.candidates[1].url ELSE <<>>
      st2 == IF page.fallback # <<>>
             THEN register_download_candidate(st1, page.fallback, "detail_fallback",
                                              MetaOf("detail_fallback"))
             ELSE st1
      link2 == IF page.fallback # <<>> /\ link1 = <<>> THEN page.fallback ELSE link1
      st3 == IF link2 = <<>> /\ page.all_versions # <<>>
             THEN register_download_candidate(st2, page.all_versions,
                                              "detail_all_versions", {})
             ELSE st2
      link3 == IF link2 = <<>> /\ page.all_versions # <<>> THEN page.all_versions ELSE link2
      doi == IF page.doi = <<>> /\ link3 # <<>> THEN _extract_doi_from_url(link3)
             ELSE page.doi
  IN [doi |-> doi, download_link |-> link3,
      detail_candidates |-> SortCandidates(st3.candidates)]

\* a loop of dict.update: the new value replaces the one present
MergeMetaOverwrite(existing_meta, new_meta) ==
  new_meta \cup {p \in existing_meta : \A q \in new_meta : q[1] # p[1]}

\* the loop of existing_meta.setdefault(key, value)
MergeMeta(existing_meta, new_meta) ==
  existing_meta \cup {q \in new_meta : \A p \in existing_meta : p[1] # q[1]}

\* a loop body that appends every candidate that has a url
MergeOneAppend(merged, candidate) ==
  IF candidate.url = <<>> THEN merged ELSE Append(merged, candidate)

\* the body of the loop over existing + new; merged is the dict, in
\* insertion order
MergeOne(merged, candidate) ==
  IF candidate.url = <<>> THEN merged
  ELSE IF \A i \in 1..Len(merged) : merged[i].url # candidate.url
  THEN Append(merged, candidate)
  ELSE LET i == CHOOSE k \in 1..Len(merged) : merged[k].url = candidate.url
           old == merged[i]
       IN [merged EXCEPT ![i] =
             [url |-> old.url,
              meta |-> MergeMeta(old.meta, candidate.meta),
              score |-> IF candidate.score < old.score THEN candidate.score
                        ELSE old.score,
              source |-> IF candidate.source \subseteq old.source THEN old.source
                         ELSE old.source \cup candidate.source]]

RECURSIVE MergeAll(_, _)
MergeAll(merged, cands) ==
  IF cands = <<>> THEN merged
  ELSE MergeAll(MergeOne(merged, Head(cands)), Tail(cands))

_merge_candidate_lists(existing, new) ==
  SortCandidates(MergeAll(<<>>, existing \o new))

_apply_download_selection(pd) ==
  LET best_candidate == _select_preferred_candidate(pd.download_candidates)
  IN IF best_candidate # NoCandidate
     THEN [pd EXCEPT !.download_link = best_candidate.url]
     ELSE pd

\* the registrations of a list of links that pass the tests of
\* register_candidate, duplicates included
RECURSIVE OffersOf(_, _)
OffersOf(links, needHttp) ==
  IF links = <<>> THEN <<>>
  ELSE LET n == _normalize_url(Head(links).raw)
           o == [url |-> n, source |-> Head(links).source,
                 score |-> _score_candidate(n, Head(links).source),
                 meta |-> MetaOf(Head(links).source)]
       IN IF n = <<>> \/ (needHttp /\ ~IsHttp(n)) THEN OffersOf(Tail(links), needHttp)
          ELSE <<o>> \o OffersOf(Tail(links), needHttp)

\* the registrations of one visit of the detail page
DetailOffers(page) ==
  LET link1 == _collect_page_download_candidates(page) IN
  OffersOf(page.links, TRUE)
  \o (IF page.fallback # <<>>
      THEN OffersOf(<<[raw |-> page.fallback, source |-> "detail_fallback"]>>, FALSE)
      ELSE <<>>)
  \o (IF link1 = <<>> /\ page.fallback = <<>> /\ page.all_versions # <<>>
      THEN OffersOf(<<[raw |-> page.all_versions, source |-> "detail_all_versions"]>>, FALSE)
      ELSE <<>>)

\* what _find_pdf_link returns for the href it settles on: the href when
\* it starts with the letters http, the href behind base_url otherwise
_find_pdf_link(href) ==
  IF href # <<>> /\ Head(href) \in {"http://", "https://", "httpx"} THEN href
  ELSE <<"https://", "scholar.google.com">> \o href

\* a detail page: the anchors, link and meta tags that qualify, what
\* _find_pdf_link finds, what _find_pdf_in_all_versions finds when it is
\* called (no link so far), and the DOI on the page; the href that is no
\* URL is found on the pages without other anchors
DetailPages ==
  {page \in
     [links : UNION {[1..n -> [raw : RawUrls,
                                 source : {"page_anchor", "meta"}]] : n \in 0..MaxPageLinks},
      fallback : {<<>>, UrlPaperPdf, _find_pdf_link(<<"httpx", ".pdf">>)},
      all_versions : {<<>>, UrlIndex},
      doi : {<<>>, <<"10.1234/x">>}] :
     /\ page.all_versions # <<>> =>
          (_collect_page_download_candidates(page) = <<>> /\ page.fallback = <<>>)
     /\ page.fallback \notin {<<>>, UrlPaperPdf} => page.links = <<>>}

\* the year and the citation trend that _extract_doi_and_download returns
\* with the DOI and the link; both vary on the pages without anchors
DetailExtras(page) ==
  IF page.links = <<>>
  THEN [year_from_detail : {"", "2021"},
        citation_trend : {<<>>, <<[year |-> 2020, citations |-> 5]>>}]
  ELSE {[year_from_detail |-> "", citation_trend |-> <<>>]}

\* doi, download_link, detail_candidates, year_from_detail, citation_trend
\* as the second pass receives them from _extract_doi_and_download
Returned(r, x) ==
  [doi |-> r.doi, download_link |-> r.download_link,
   detail_candidates |-> r.detail_candidates,
   year_from_detail |-> x.year_from_detail, citation_trend |-> x.citation_trend]

\* the year of the detail page, stored whatever the record holds
YearOverwritten(year, year_from_detail) == year_from_detail

\* if not paper_data.get('year') and year_from_detail
YearStored(year, year_from_detail) ==
  IF year = "" /\ year_from_detail # "" THEN year_from_detail ELSE year

\* the row, whether it has a paper link, and whether it has a title, which
\* is read only for a paper without download link (a row without links)
InitPaper ==
  /\ pp_pc = "row"
  /\ pp_row \in RowLinks
  /\ pp_has_link \in BOOLEAN
  /\ pp_has_title \in (IF pp_row = <<>> THEN BOOLEAN ELSE {TRUE})
  /\ paper_data = [doi |-> <<>>, download_link |-> <<>>, download_candidates |-> <<>>,
                   year |-> "", citation_trend |-> <<>>]
  /\ pp_offers = <<>>
  /\ pp_detail = <<>>
  /\ final_download_link = <<>>
  /\ SelectIdle
  /\ ScrapeIdle
  /\ ChainIdle
  /\ FetchIdle
  /\ FnIdle
  /\ ServerIdle

\* first pass of _extract_papers_from_page for the row; a row of at most
\* one link may show no year
RowPass ==
  /\ pp_pc = "row"
  /\ \E year \in (IF Len(pp_row) <= 1 THEN {"", "2019"} ELSE {"2019"}) :
       LET inline == _collect_inline_download_candidates(pp_row)
           pdf_link == IF inline.best # NoCandidate THEN inline.best.url ELSE <<>>
           paper_entry == [doi |-> _extract_doi_from_url(pdf_link),
                           download_link |-> <<>>,
                           download_candidates |-> inline.candidates,
                           year |-> year, citation_trend |-> <<>>]
       IN paper_data' = _apply_download_selection(paper_entry)
  /\ final_download_link' = paper_data'.download_link
  /\ pp_offers' = OffersOf(pp_row, TRUE)
  /\ pp_pc' = IF pp_has_link THEN "second" ELSE "done"
  /\ UNCHANGED <<pp_row, pp_has_link, pp_has_title, pp_detail, selVars, scrapeVars,
                 chainVars, fetchVars, fnVars, srvVars>>

\* second pass, the paper has no download link yet: the detail page is
\* visited and its candidates are merged; without a link from the detail
\* page the mirror lookup follows
SecondPassNoLink ==
  /\ pp_pc = "second"
  /\ paper_data.download_link = <<>>
  /\ \E page \in DetailPages : \E x \in DetailExtras(page) :
       \E r \in {_extract_doi_and_download(page)} :
       LET merged == [paper_data EXCEPT
                        !.doi = r.doi,
                        !.year = YearStored(@, x.year_from_detail),
                        !.citation_trend = x.citation_trend,
                        !.download_candidates =
                           _merge_candidate_lists(@, r.detail_candidates)]
       IN /\ pp_offers' = pp_offers \o DetailOffers(page)
          /\ pp_detail' = Append(pp_detail, Returned(r, x))
          /\ IF r.download_link = <<>> /\ pp_has_title
             THEN /\ paper_data' = merged
                  /\ pp_pc' = "mirror"
                  /\ UNCHANGED final_download_link
             ELSE /\ paper_data' = _apply_download_selection(merged)
                  /\ final_download_link' = paper_data'.download_link
                  /\ pp_pc' = "done"
  /\ UNCHANGED <<pp_row, pp_has_link, pp_has_title, selVars, scrapeVars,
                 chainVars, fetchVars, fnVars, srvVars>>

\* the mirror lookup and the selection that ends the second pass
MirrorLookup ==
  /\ pp_pc = "mirror"
  /\ \E scihub_link \in {<<>>, <<"https://", "sci-hub.se", "/paper", ".pdf">>} :
       LET c == [url |-> scihub_link, source |-> {"scihub"},
                 meta |-> MetaOf("scihub"),
                 score |-> _score_candidate(scihub_link, "scihub")]
           merged == IF scihub_link # <<>>
                     THEN [paper_data EXCEPT !.download_candidates =
                             _merge_candidate_lists(@, <<c>>)]
                     ELSE paper_data
       IN /\ paper_data' = _apply_download_selection(merged)
          /\ final_download_link' = paper_data'.download_link
          /\ pp_offers' = IF scihub_link # <<>>
                          THEN Append(pp_offers, [url |-> c.url, source |-> "scihub",
                                                  score |-> c.score, meta |-> c.meta])
                          ELSE pp_offers
  /\ pp_pc' = "done"
  /\ UNCHANGED <<pp_row, pp_has_link, pp_has_title, pp_detail, selVars, scrapeVars,
                 chainVars, fetchVars, fnVars, srvVars>>

\* second pass, the row gave a download link: the detail page is visited
\* (the citation trend is still empty), its candidates are merged only when
\* the paper has no DOI yet
SecondPassHaveLink ==
  /\ pp_pc = "second"
  /\ paper_data.download_link # <<>>
  /\ \E page \in DetailPages : \E x \in DetailExtras(page) :
       \E r \in {_extract_doi_and_download(page)} :
       /\ pp_detail' = Append(pp_detail, Returned(r, x))
       /\ IF paper_data.doi = <<>>
          THEN /\ paper_data' = _apply_download_selection(
                                  [paper_data EXCEPT
                                     !.doi = r.doi,
                                     !.year = YearStored(@, x.year_from_detail),
                                     !.citation_trend = IF @ = <<>> THEN x.citation_trend
                                                        ELSE @,
                                     !.download_candidates =
                                        _merge_candidate_lists(@, r.detail_candidates)])
               /\ pp_offers' = pp_offers \o DetailOffers(page)
          ELSE /\ paper_data' = _apply_download_selection(paper_data)
               /\ pp_offers' = pp_offers
  /\ final_download_link' = paper_data'.download_link
  /\ pp_pc' = "done"
  /\ UNCHANGED <<pp_row, pp_has_link, pp_has_title, selVars, scrapeVars,
                 chainVars, fetchVars, fnVars, srvVars>>

\* a write to stdout raises in the second pass and the except clause
\* continues with the next paper: the progress line before anything is
\* done, or the log line that follows the merge of the detail candidates
\* of a paper without download link when the detail page gave one
SecondPassRaises ==
  /\ pp_pc = "second"
  /\ \/ UNCHANGED <<paper_data, pp_offers, pp_detail>>
     \/ /\ paper_data.download_link = <<>>
        /\ \E page \in DetailPages : \E x \in DetailExtras(page) :
             \E r \in {_extract_doi_and_download(page)} :
             /\ r.download_link # <<>>
             /\ paper_data' =
                  [paper_data EXCEPT
                     !.doi = r.doi,
                     !.year = YearStored(@, x.year_from_detail),
                     !.citation_trend = x.citation_trend,
                     !.download_candidates =
                        _merge_candidate_lists(@, r.detail_candidates)]
             /\ pp_offers' = pp_offers \o DetailOffers(page)
             /\ pp_detail' = Append(pp_detail, Returned(r, x))
  /\ pp_pc' = "done"
  /\ UNCHANGED <<pp_row, pp_has_link, pp_has_title, final_download_link, selVars,
                 scrapeVars, chainVars, fetchVars, fnVars, srvVars>>

NextPaper ==
  \/ RowPass
  \/ SecondPassNoLink
  \/ MirrorLookup
  \/ SecondPassHaveLink
  \/ SecondPassRaises

SpecPaper == InitPaper /\ [][NextPaper]_vars

\* C4: a URL registered or merged twice from two different sources is one
\* candidate whose source tags are the union of the sources it came from and
\* whose score is the minimum of the scores it was given.
C4_TwiceIsUnionAndMin ==
  \A i \in 1..Len(paper_data.download_candidates) :
    LET c == paper_data.download_candidates[i]
        os == {k \in 1..Len(pp_offers) : pp_offers[k].url = c.url}
    IN /\ \A j \in 1..Len(paper_data.download_candidates) :
            paper_data.download_candidates[j].url = c.url => j = i
       /\ c.source = {pp_offers[k].source : k \in os}
       /\ \A k \in os : c.score <= pp_offers[k].score

\* C5: every metadata key of a candidate keeps the value of the first
\* registration of its URL, and a later registration only adds keys that
\* were absent.
C5_FirstSeenKeyWins ==
  \A i \in 1..Len(paper_data.download_candidates) :
    LET c == paper_data.download_candidates[i]
        os == {k \in 1..Len(pp_offers) : pp_offers[k].url = c.url}
    IN /\ os # {}
       /\ LET first == CHOOSE k \in os : \A m \in os : k <= m
          IN pp_offers[first].meta \subseteq c.meta
       /\ \A p, q \in c.meta : p[1] = q[1] => p = q
       /\ \A p \in c.meta : \E k \in os : p \in pp_offers[k].meta

\* a candidate of the row was merged with a detail-page registration that
\* carries another value for a key it already had
C5_Witness ==
  /\ pp_pc = "done"
  /\ \E i \in 1..Len(paper_data.download_candidates) :
       LET c == paper_data.download_candidates[i] IN
       /\ Cardinality(c.source) >= 2
       /\ \E k, m \in 1..Len(pp_offers) :
            /\ k < m
            /\ pp_offers[k].url = c.url
            /\ pp_offers[m].url = c.url
            /\ pp_offers[m].source \in c.source
            /\ \E p \in pp_offers[k].meta, q \in pp_offers[m].meta :
                 p[1] = q[1] /\ p[2] # q[2] /\ p \in c.meta

\* C6: the candidate list of a paper never holds two entries with the same
\* URL.
C6_UniqueUrls ==
  \A i, j \in 1..Len(paper_data.download_candidates) :
    paper_data.download_candidates[i].url = paper_data.download_candidates[j].url
      => i = j

\* the detail page offered a URL that the row had already given, next to
\* another candidate
C6_Witness ==
  /\ pp_pc = "done"
  /\ Len(paper_data.download_candidates) >= 2
  /\ \E i \in 1..Len(paper_data.download_candidates) :
       /\ "row_anchor" \in paper_data.download_candidates[i].source
       /\ "page_anchor" \in paper_data.download_candidates[i].source

(***************************************************************************)
(* SpecScrape: the pagination loop of _scrape_papers.  The source has a    *)
(* fixed list of rows; the page shows a prefix of it that grows when       *)
(* "Show more" is clicked, at once or after a rendering delay.             *)
(***************************************************************************)

MaxQuota == 6
MaxRows == 6

\* min(20, remaining)
BufferCap == 20

TitleLetters == <<"a", "b", "c", "d", "e", "f", "g", "h">>

\* the sources: n rows with the titles a, b, c, ..., the same with one later
\* row that repeats the first title in upper case, and the same with the
\* two-word title "a b" in the first row and a later row that repeats it
\* with two whitespace characters between the words
SourceLists ==
  UNION {
    {[i \in 1..n |-> <<TitleLetters[i]>>]}
    \cup {[i \in 1..n |-> IF i = d THEN <<"A">> ELSE <<TitleLetters[i]>>] : d \in 2..n}
    \cup {[i \in 1..n |-> IF i = 1 THEN <<"a", " ", "b">>
                           ELSE IF i = d THEN <<"a", " ", " ", "b">>
                           ELSE <<TitleLetters[i]>>] : d \in 2..n}
    : n \in 1..MaxRows}

\* paper['title'].lower().strip()
TitleKey(title) == Strip(Lower(title))

\* the filter loop over page_papers: st is the pair of new_papers and
\* seen_titles
RECURSIVE FilterNew(_, _)
FilterNew(st, page_papers) ==
  IF page_papers = <<>> THEN st
  ELSE LET paper == Head(page_papers)
           title_key == TitleKey(paper)
       IN IF paper # <<>> /\ title_key \notin st.seen_titles
          THEN FilterNew([new_papers |-> Append(st.new_papers, paper),
                          seen_titles |-> st.seen_titles \cup {title_key}],
                         Tail(page_papers))
          ELSE FilterNew(st, Tail(page_papers))

Min(a, b) == IF a < b THEN a ELSE b

\* an extend that takes every new paper
TakeAll(new_papers, remaining) == new_papers

\* an extend that adds nothing
TakeNothing(new_papers, remaining) == <<>>

\* new_papers[:remaining]
TakeRemaining(new_papers, remaining) ==
  SubSeq(new_papers, 1, Min(remaining, Len(new_papers)))

\* the rows that _extract_papers_from_page turns into papers: the first
\* max_to_process rows of the page
_extract_papers_from_page(max_to_process) ==
  SubSeq(source_rows, 1, Min(page_rows, max_to_process))

\* what a call of _load_more_papers can do to the page, and what it returns:
\* rows that render within its wait make it return True; a click whose rows
\* render later, or that has no effect, makes it return False
LoadOutcomes ==
  LET hidden == Len(source_rows) - page_rows - page_pending IN
  {[ok |-> TRUE, rows |-> page_rows + page_pending + k, pending |-> 0] :
     k \in {m \in 0..hidden : page_pending + m > 0}}
  \cup {[ok |-> FALSE, rows |-> page_rows, pending |-> page_pending + k] :
          k \in 0..hidden}

\* a row count read by query_selector_all: one more reading without growth
\* since the extraction, or growth
Observed == IF page_rows > count_before_load THEN 0 ELSE stable_obs + 1

InitScrape ==
  /\ sp_pc = "extract"
  /\ max_papers \in 1..MaxQuota
  /\ source_rows \in SourceLists
  /\ page_rows \in 1..Len(source_rows)
  /\ page_pending = 0
  /\ papers = <<>>
  /\ seen_titles = {}
  /\ count_before_load = 0
  /\ papers_on_page_count = 0
  /\ stable_obs = 0
  /\ last_pass = [new |-> 0, remaining |-> 0]
  /\ sp_exit = "none"
  /\ load_failed = FALSE
  /\ sp_passes = 0
  /\ SelectIdle
  /\ PaperIdle
  /\ ChainIdle
  /\ FetchIdle
  /\ FnIdle
  /\ ServerIdle

\* rows requested by an earlier click appear on the page
Render ==
  /\ sp_pc # "done"
  /\ page_pending > 0
  /\ page_rows' = page_rows + page_pending
  /\ page_pending' = 0
  /\ UNCHANGED <<sp_pc, sp_passes, max_papers, source_rows, papers, seen_titles,
                 count_before_load, papers_on_page_count, stable_obs,
                 last_pass, sp_exit, load_failed, selVars, paperVars,
                 chainVars, fetchVars, fnVars, srvVars>>

\* the while test and one pass: extraction, filter of the titles seen,
\* extend up to the quota, row count before the load
ExtractPass ==
  /\ sp_pc = "extract"
  /\ Len(papers) < max_papers
  /\ LET remaining == max_papers - Len(papers)
         buffer == Min(BufferCap, remaining)
         max_to_extract == remaining + buffer
         page_papers == _extract_papers_from_page(max_to_extract)
         f == FilterNew([new_papers |-> <<>>, seen_titles |-> seen_titles],
                        page_papers)
         extended == papers \o TakeRemaining(f.new_papers, remaining)
     IN IF page_papers = <<>>
        THEN /\ sp_pc' = "done"
             /\ sp_exit' = "no_papers"
             /\ UNCHANGED <<papers, seen_titles, count_before_load, last_pass>>
        ELSE /\ seen_titles' = f.seen_titles
             /\ last_pass' = [new |-> Len(f.new_papers), remaining |-> remaining]
             /\ IF f.new_papers = <<>>
                THEN /\ sp_pc' = "done"
                     /\ sp_exit' = "no_new"
                     /\ UNCHANGED <<papers, count_before_load>>
                ELSE /\ papers' = extended
                     /\ IF Len(extended) >= max_papers
                        THEN /\ sp_pc' = "done"
                             /\ sp_exit' = "quota"
                             /\ UNCHANGED count_before_load
                        ELSE /\ sp_pc' = "load"
                             /\ count_before_load' = page_rows
                             /\ UNCHANGED sp_exit
  /\ stable_obs' = 0
  /\ sp_passes' = sp_passes + 1
  /\ UNCHANGED <<max_papers, source_rows, page_rows, page_pending,
                 papers_on_page_count, load_failed, selVars, paperVars,
                 chainVars, fetchVars, fnVars, srvVars>>

\* load_success = await self._load_more_papers(page)
LoadMore ==
  /\ sp_pc = "load"
  /\ \E o \in LoadOutcomes :
       /\ page_rows' = o.rows
       /\ page_pending' = o.pending
       /\ sp_pc' = IF o.ok THEN "verify" ELSE "settle"
       /\ load_failed' = (load_failed \/ (~o.ok /\ page_rows < Len(source_rows)))
  /\ UNCHANGED <<sp_passes, max_papers, source_rows, papers, seen_titles,
                 count_before_load, papers_on_page_count, stable_obs,
                 last_pass, sp_exit, selVars, paperVars,
                 chainVars, fetchVars, fnVars, srvVars>>

\* the load failed: after the sleep, the row count against the papers
\* collected
SettleCheck ==
  /\ sp_pc = "settle"
  /\ papers_on_page_count' = page_rows
  /\ stable_obs' = Observed
  /\ sp_pc' = IF page_rows > Len(papers)
              THEN (IF page_rows < max_papers THEN "reload" ELSE "extract")
              ELSE "scrolled"
  /\ UNCHANGED <<sp_passes, max_papers, source_rows, page_rows, page_pending, papers,
                 seen_titles, count_before_load, last_pass, sp_exit,
                 load_failed, selVars, paperVars,
                 chainVars, fetchVars, fnVars, srvVars>>

\* the load before the continue, its result unused
ReloadBeforeContinue ==
  /\ sp_pc = "reload"
  /\ \E o \in LoadOutcomes :
       /\ page_rows' = o.rows
       /\ page_pending' = o.pending
       /\ load_failed' = (load_failed \/ (~o.ok /\ page_rows < Len(source_rows)))
  /\ sp_pc' = "extract"
  /\ UNCHANGED <<sp_passes, max_papers, source_rows, papers, seen_titles,
                 count_before_load, papers_on_page_count, stable_obs,
                 last_pass, sp_exit, selVars, paperVars,
                 chainVars, fetchVars, fnVars, srvVars>>

\* the row count after the scroll against the count before it
ScrollCheck ==
  /\ sp_pc = "scrolled"
  /\ stable_obs' = Observed
  /\ sp_pc' = IF page_rows > papers_on_page_count THEN "extract" ELSE "retry"
  /\ UNCHANGED <<sp_passes, max_papers, source_rows, page_rows, page_pending, papers,
                 seen_titles, count_before_load, papers_on_page_count,
                 last_pass, sp_exit, load_failed, selVars, paperVars,
                 chainVars, fetchVars, fnVars, srvVars>>

\* retry_load = await self._load_more_papers(page)
RetryLoad ==
  /\ sp_pc = "retry"
  /\ \E o \in LoadOutcomes :
       /\ page_rows' = o.rows
       /\ page_pending' = o.pending
       /\ sp_pc' = IF o.ok THEN "extract" ELSE "final"
       /\ load_failed' = (load_failed \/ (~o.ok /\ page_rows < Len(source_rows)))
  /\ UNCHANGED <<sp_passes, max_papers, source_rows, papers, seen_titles,
                 count_before_load, papers_on_page_count, stable_obs,
                 last_pass, sp_exit, selVars, paperVars,
                 chainVars, fetchVars, fnVars, srvVars>>

\* the final check before "No more pages available"
FinalCheck ==
  /\ sp_pc = "final"
  /\ stable_obs' = Observed
  /\ IF Len(papers) < max_papers /\ page_rows > Len(papers)
     THEN sp_pc' = "extract" /\ UNCHANGED sp_exit
     ELSE sp_pc' = "done" /\ sp_exit' = "stalled"
  /\ UNCHANGED <<sp_passes, max_papers, source_rows, page_rows, page_pending, papers,
                 seen_titles, count_before_load, papers_on_page_count,
                 last_pass, load_failed, selVars, paperVars,
                 chainVars, fetchVars, fnVars, srvVars>>

\* the load succeeded: the row count after it against the count before it;
\* the second reading after the longer sleep is taken only when the first
\* shows no growth, which needs rows to leave the page
VerifyLoaded ==
  /\ sp_pc = "verify"
  /\ stable_obs' = IF page_rows <= count_before_load THEN stable_obs + 2 ELSE 0
  /\ IF page_rows <= count_before_load
     THEN sp_pc' = "done" /\ sp_exit' = "not_loaded"
     ELSE sp_pc' = "extract" /\ UNCHANGED sp_exit
  /\ UNCHANGED <<sp_passes, max_papers, source_rows, page_rows, page_pending, papers,
                 seen_titles, count_before_load, papers_on_page_count,
                 last_pass, load_failed, selVars, paperVars,
                 chainVars, fetchVars, fnVars, srvVars>>

NextScrape ==
  \/ Render
  \/ ExtractPass
  \/ LoadMore
  \/ SettleCheck
  \/ ReloadBeforeContinue
  \/ ScrollCheck
  \/ RetryLoad
  \/ FinalCheck
  \/ VerifyLoaded

SpecScrape == InitScrape /\ [][NextScrape]_vars

\* C23: once a field of a paper record (download link, DOI, year, citation
\* trend) holds a non-empty value, no later stage of the row (detail-page
\* pass, mirror lookup, re-selection) sets it back to empty.
C23_FieldsNeverCleared ==
  [][/\ paper_data.download_link # <<>> => paper_data'.download_link # <<>>
     /\ paper_data.doi # <<>> => paper_data'.doi # <<>>
     /\ paper_data.year # "" => paper_data'.year # ""
     /\ paper_data.citation_trend # <<>> => paper_data'.citation_trend # <<>>]_vars

\* the mirror lookup and the re-selection ran on a record whose year came
\* from the row and whose DOI and citation trend came from the detail page
C23_Witness ==
  /\ pp_pc = "done"
  /\ \E i \in 1..Len(pp_offers) : pp_offers[i].source = "scihub"
  /\ paper_data.year = "2019"
  /\ paper_data.doi # <<>>
  /\ paper_data.citation_trend # <<>>
  /\ paper_data.download_link # <<>>

\* C7: for a source of T rows with distinct titles whose loads all succeed
\* and a quota Q <= T, the loop ends with exactly Q records with pairwise
\* distinct dedup keys.
C7_ReachesQuota ==
  (/\ sp_pc = "done"
   /\ ~load_failed
   /\ max_papers <= Len(source_rows)
   /\ \A i, j \in 1..Len(source_rows) :
        i # j => TitleKey(source_rows[i]) # TitleKey(source_rows[j]))
  => /\ Len(papers) = max_papers
     /\ \A i, j \in 1..Len(papers) :
          i # j => TitleKey(papers[i]) # TitleKey(papers[j])

\* C8: for a source that stops growing after N < Q rows with distinct
\* titles, the loop ends without reaching the quota and with exactly those
\* N records.
C8_StalledReturnsAll ==
  (/\ sp_pc = "done"
   /\ Len(source_rows) < max_papers
   /\ page_rows = Len(source_rows)
   /\ \A i, j \in 1..Len(source_rows) :
        i # j => TitleKey(source_rows[i]) # TitleKey(source_rows[j]))
  => papers = source_rows

\* C9: the loop gives up before the quota only after two consecutive
\* readings of the row count that show no growth.
C9_TwoStableReadings ==
  (sp_pc = "done" /\ Len(papers) < max_papers) => stable_obs >= 2

\* C10: the number of collected records never exceeds max_papers.
C10_AtMostTarget == Len(papers) <= max_papers

\* a pass found more new papers than the remaining quota and the list
\* stopped at the quota
C10_Witness ==
  /\ sp_pc = "done"
  /\ last_pass.new > last_pass.remaining
  /\ Len(papers) = max_papers

\* C11: after every pass of the loop, the last one included, the titles
\* marked as seen are exactly the dedup keys of the collected records.
C11_SeenIsCollected ==
  seen_titles = {TitleKey(papers[i]) : i \in 1..Len(papers)}

\* C12: records are deduplicated by the title in lower case with runs of
\* whitespace collapsed: the collected list never holds two records whose
\* titles differ only in letter case or in runs of whitespace.
C12_DedupByCollapsedTitle ==
  LET RECURSIVE Collapse(_)
      Collapse(t) ==
        IF Len(t) < 2 THEN t
        ELSE IF t[1] = " " /\ t[2] = " " THEN Collapse(Tail(t))
        ELSE <<t[1]>> \o Collapse(Tail(t))
  IN \A i, j \in 1..Len(papers) :
       Collapse(Strip(Lower(papers[i]))) = Collapse(Strip(Lower(papers[j])))
         => i = j

(***************************************************************************)
(* SpecChain: the loop of scrape_profile over the selected papers, the     *)
(* fallback chain of _extract_paper_metadata for each of them, and         *)
(* _validate_pdf_link with its cache.  A call of _validate_pdf_link runs   *)
(* up to its await in the step that makes it; its HEAD probe returns in a  *)
(* later step, so the probes of one gather are in flight together.         *)
(***************************************************************************)

MaxChainPapers == 2
MaxFound == 4

\* found_links[:3] and found_links[3:]
BatchSize == 3

UrlUpperPdf == <<"https://", "example.org", "/paper", ".PDF">>
UrlRelativePdf == <<"//", "arxiv.org", "/pdf/", "2101.00001", ".pdf">>

\* every URL that can reach a HEAD probe
ChainHttpUrls ==
  {UrlPaperPdf, UrlUpperPdf, UrlIndex,
   <<"https://", "arxiv.org", "/pdf/", "2101.00001", ".pdf">>}

\* Content-Type headers of a HEAD response
ContentTypes ==
  {<<>>, <<"text/html">>, <<"application/", "pdf">>, <<"application/", "PDF">>}

\* how the HEAD probe of one call ends: a response, or an exception of
\* requests; when the verified request raises SSLError the outcome is that
\* of the request repeated with verify=False
HeadOutcomes ==
  [kind : {"response"}, status_code : {200, 399, 400},
   content_type : ContentTypes]
  \cup [kind : {"Timeout", "RequestException", "Exception"},
        status_code : {0}, content_type : {<<>>}]

\* pdf_url.startswith('http')
StartsWithHttp(pdf_url) ==
  pdf_url # <<>> /\ Head(pdf_url) \in {"http://", "https://"}

\* a verdict that looks at the status only
is_valid_by_status(pdf_url, response) ==
  200 <= response.status_code /\ response.status_code < 400

\* is_valid_status and (is_pdf_content or pdf_url.lower().endswith('.pdf')),
\* where is_valid_status is 200 <= response.status_code < 400 and
\* is_pdf_content is 'pdf' in content_type, lower-cased
is_valid(pdf_url, response) ==
  LET is_valid_status ==
        200 <= response.status_code /\ response.status_code < 400
      is_pdf_content == HasTok(Lower(response.content_type), {"pdf"})
  IN is_valid_status /\ (is_pdf_content \/ EndsWithPdf(Lower(pdf_url)))

\* the value _validate_pdf_link caches and returns when its probe ends
ProbeVerdict(pdf_url, o) ==
  IF o.kind = "response" THEN is_valid(pdf_url, o) ELSE FALSE

\* self._validation_cache[pdf_url] = is_valid
CachePut(cache, pdf_url, verdict) ==
  [u \in DOMAIN cache \cup {pdf_url} |-> IF u = pdf_url THEN verdict ELSE cache[u]]

\* a call that probes although the URL is in the cache
CallUncached(pdf_url) ==
  IF pdf_url = <<>> \/ ~StartsWithHttp(pdf_url)
  THEN [url |-> pdf_url, state |-> "done", cached |-> FALSE, res |-> FALSE]
  ELSE [url |-> pdf_url, state |-> "flying", cached |-> FALSE, res |-> FALSE]

\* _validate_pdf_link up to its await: the test of the URL and the cache
\* lookup return at once, anything else starts a HEAD probe
Call(pdf_url) ==
  IF pdf_url = <<>> \/ ~StartsWithHttp(pdf_url)
  THEN [url |-> pdf_url, state |-> "done", cached |-> FALSE, res |-> FALSE]
  ELSE IF pdf_url \in DOMAIN _validation_cache
  THEN [url |-> pdf_url, state |-> "done", cached |-> TRUE,
        res |-> _validation_cache[pdf_url]]
  ELSE [url |-> pdf_url, state |-> "flying", cached |-> FALSE, res |-> FALSE]

\* the calls made for a list of links before the caller awaits them
Issue(links) == [i \in 1..Len(links) |-> Call(links[i])]

Flying(cs) == {i \in 1..Len(cs) : cs[i].state = "flying"}

AllDone(cs) == cs # <<>> /\ Flying(cs) = {}

\* the probe counters after the calls cs were made
Probed(cs) ==
  [u \in DOMAIN probes |->
     Min(2, probes[u] + Cardinality({i \in Flying(cs) : cs[i].url = u}))]

\* the final deduplication of found_links, in order
RECURSIVE Unique(_, _)
Unique(links, seen) ==
  IF links = <<>> THEN <<>>
  ELSE IF Head(links) \in seen THEN Unique(Tail(links), seen)
  ELSE <<Head(links)>> \o Unique(Tail(links), seen \cup {Head(links)})

\* a batch of all links
BatchAll(links) == links

\* found_links[:3]
Batch(links) == SubSeq(links, 1, Min(BatchSize, Len(links)))

\* arxiv_id.split('v')[0]
RECURSIVE BeforeV(_)
BeforeV(arxiv_id) ==
  IF arxiv_id = <<>> \/ Head(arxiv_id) = "v2" THEN <<>>
  ELSE <<Head(arxiv_id)>> \o BeforeV(Tail(arxiv_id))

\* the DOI of externalIds with its "10." prefix
CleanDoi(doi) ==
  IF doi # <<>> /\ Head(doi) # "10." THEN <<"10.">> \o doi ELSE doi

\* a fallback that gives no link
NoFallbackUrl(paper_id) == <<>>

\* _create_semantic_scholar_url
_create_semantic_scholar_url(paper_id) ==
  <<"https://", "www.semanticscholar.org", "/paper/", paper_id>>

\* a stage that runs whatever the link
AnyLink(link) == TRUE

\* not download_link
NoLinkYet(link) == link = <<>>

\* handlers of all stages but the page scrape
CaughtButPage(stage) ==
  stage \in {"full_details", "arxiv", "unpaywall", "doi_redirect"}

\* the stages whose own try block catches what their lookups raise
CaughtInStage(stage) ==
  stage \in {"full_details", "arxiv", "unpaywall", "doi_redirect", "page_scrape"}

InitChain ==
  /\ ch_pc = "next"
  /\ ch_total \in 1..MaxChainPapers
  /\ ch_n = 0
  /\ ch_paper = NoPaper
  /\ download_link = <<>>
  /\ ch_papers = <<>>
  /\ _validation_cache = EmptyCache
  /\ calls = <<>>
  /\ found_links = <<>>
  /\ seq_idx = 0
  /\ probes = [u \in ChainHttpUrls |-> 0]
  /\ stages_run = {}
  /\ ch_hit = NoHit
  /\ ch_raised = "none"
  /\ paper_dict = NoDict
  /\ last_call = NoCall
  /\ ch_counted = 0
  /\ SelectIdle
  /\ PaperIdle
  /\ ScrapeIdle
  /\ FetchIdle
  /\ FnIdle
  /\ ServerIdle

\* where the loop of scrape_profile goes after paper idx
AfterPaper(idx) == IF idx = ch_total THEN "done" ELSE "next"

\* where the caller of _validate_pdf_link goes after call number n
AfterCall(n) == IF n = ch_total THEN "v_done" ELSE "v_call"

\* the return of the dict and papers.append(paper_dict)
Return(link) ==
  /\ download_link' = link
  /\ paper_dict' = [paperId |-> ch_paper.paperId,
                    doi |-> CleanDoi(ch_paper.DOI), download_link |-> link]
  /\ ch_papers' = Append(ch_papers, ch_n)
  /\ ch_pc' = AfterPaper(ch_n)
  /\ calls' = <<>>
  /\ found_links' = <<>>
  /\ seq_idx' = 0

\* the handler of _extract_paper_metadata returns None and the loop
\* continues with the next paper
ReturnNone(idx) ==
  /\ ch_pc' = AfterPaper(idx)
  /\ calls' = <<>>
  /\ found_links' = <<>>
  /\ seq_idx' = 0
  /\ UNCHANGED <<paper_dict, ch_papers>>

\* a stage makes its calls of _validate_pdf_link for the links and awaits
Await(links, wait_pc) ==
  /\ calls' = Issue(links)
  /\ probes' = Probed(Issue(links))
  /\ ch_pc' = wait_pc

\* the chain goes on without a validation
Goto(next_pc) == ch_pc' = next_pc /\ UNCHANGED <<calls, probes>>

\* _extract_paper_metadata has not returned
NoReturn == UNCHANGED <<paper_dict, ch_papers, found_links, seq_idx>>

\* the loop takes the next paper, an API object with its paperId and its
\* externalIds["DOI"]: the metadata fields, then the url of openAccessPdf,
\* "" when the field is missing, and its validation
BeginPaper ==
  /\ ch_pc = "next"
  /\ \E p \in [paperId : {"", "p1"}, DOI : {<<>>, <<"10.", "1234/x">>}],
        url \in {<<>>, <<" ">>, UrlRelativePdf, UrlPaperPdf, UrlIndex},
        metadata_error \in BOOLEAN :
       /\ ch_paper' = p
       /\ IF metadata_error
          THEN /\ ReturnNone(ch_n + 1)
               /\ download_link' = <<>>
               /\ stages_run' = {}
               /\ UNCHANGED probes
          ELSE IF url # <<>> /\ Strip(url) # <<>>
          THEN /\ download_link' = url
               /\ stages_run' = {"openAccessPdf"}
               /\ Await(<<url>>, "oa_wait")
               /\ UNCHANGED <<ch_papers, found_links, seq_idx>>
          ELSE /\ download_link' = <<>>
               /\ stages_run' = {}
               /\ Goto("full")
               /\ UNCHANGED <<ch_papers, found_links, seq_idx>>
  /\ ch_n' = ch_n + 1
  /\ paper_dict' = NoDict
  /\ ch_hit' = NoHit
  /\ ch_raised' = "none"
  /\ ch_counted' = 0
  /\ UNCHANGED <<ch_total, _validation_cache, last_call,
                 selVars, paperVars, scrapeVars, fetchVars, fnVars, srvVars>>

\* the HEAD probe of one call in flight ends: the verdict is cached and the
\* call returns it
ProbeReturn ==
  /\ ch_pc \in {"oa_wait", "full_wait", "arxiv_wait", "unpaywall_wait",
                "redirect_wait", "batch_wait", "seq_wait"}
  /\ \E i \in Flying(calls), o \in HeadOutcomes :
       LET pdf_url == calls[i].url
           verdict == ProbeVerdict(pdf_url, o)
       IN /\ _validation_cache' = CachePut(_validation_cache, pdf_url, verdict)
          /\ calls' = [calls EXCEPT ![i] = [@ EXCEPT !.state = "done",
                                                     !.res = verdict]]
  /\ UNCHANGED <<ch_counted, ch_pc, ch_total, ch_n, ch_paper, download_link, paper_dict,
                 ch_papers, found_links, seq_idx, probes, stages_run, ch_hit,
                 ch_raised, last_call,
                 selVars, paperVars, scrapeVars, fetchVars, fnVars, srvVars>>

\* the validation of the openAccessPdf url returned
OaReturn ==
  /\ ch_pc = "oa_wait"
  /\ AllDone(calls)
  /\ IF calls[1].res
     THEN /\ ch_hit' = [stage |-> "openAccessPdf", url |-> download_link]
          /\ ch_counted' = ch_counted + 1
          /\ UNCHANGED download_link
     ELSE /\ download_link' = <<>>
          /\ UNCHANGED <<ch_hit, ch_counted>>
  /\ ch_pc' = "full"
  /\ calls' = <<>>
  /\ NoReturn
  /\ UNCHANGED <<ch_total, ch_n, ch_paper, _validation_cache, probes,
                 stages_run, ch_raised, last_call,
                 selVars, paperVars, scrapeVars, fetchVars, fnVars, srvVars>>

\* the full-details lookup: get_paper, the url of its openAccessPdf and the
\* validation of the url
FullDetails ==
  /\ ch_pc = "full"
  /\ IF NoLinkYet(download_link) /\ ch_paper.paperId # ""
     THEN /\ stages_run' = stages_run \cup {"full_details"}
          /\ \E raised \in BOOLEAN, full_url \in {<<>>, UrlIndex, UrlUpperPdf} :
               IF raised
               THEN /\ ch_raised' = "full_details"
                    /\ IF CaughtInStage("full_details")
                       THEN Goto("arxiv") /\ NoReturn
                       ELSE ReturnNone(ch_n) /\ UNCHANGED probes
               ELSE /\ IF full_url # <<>> /\ Strip(full_url) # <<>>
                       THEN Await(<<full_url>>, "full_wait")
                       ELSE Goto("arxiv")
                    /\ NoReturn
                    /\ UNCHANGED ch_raised
     ELSE /\ Goto("arxiv")
          /\ NoReturn
          /\ UNCHANGED <<stages_run, ch_raised>>
  /\ UNCHANGED <<ch_counted, ch_total, ch_n, ch_paper, download_link, _validation_cache,
                 ch_hit, last_call,
                 selVars, paperVars, scrapeVars, fetchVars, fnVars, srvVars>>

\* a validation awaited by a stage returned, that of full_url, of the
\* arXiv PDF URL, of url_for_pdf or of final_url: the link it validated is
\* the download link, or the chain goes on without one
StageReturn ==
  /\ \E t \in {<<"full_wait", "full_details", "arxiv", "arxiv">>,
              <<"arxiv_wait", "arxiv", "doi", "doi">>,
              <<"unpaywall_wait", "unpaywall", "page", "doi_head">>,
              <<"redirect_wait", "doi_redirect", "page", "page">>} :
       /\ ch_pc = t[1]
       /\ AllDone(calls)
       /\ IF calls[1].res
          THEN /\ download_link' = calls[1].url
               /\ ch_hit' = [stage |-> t[2], url |-> calls[1].url]
               /\ ch_counted' = ch_counted + 1
               /\ ch_pc' = t[3]
          ELSE /\ ch_pc' = t[4]
               /\ UNCHANGED <<download_link, ch_hit, ch_counted>>
  /\ calls' = <<>>
  /\ NoReturn
  /\ UNCHANGED <<ch_total, ch_n, ch_paper, _validation_cache, probes,
                 stages_run, ch_raised, last_call,
                 selVars, paperVars, scrapeVars, fetchVars, fnVars, srvVars>>

\* _extract_arxiv_pdf: externalIds["ArXiv"], the PDF URL
\* f"https://arxiv.org/pdf/{arxiv_id}.pdf" of the id and its validation
Arxiv ==
  /\ ch_pc = "arxiv"
  /\ IF NoLinkYet(download_link)
     THEN /\ stages_run' = stages_run \cup {"arxiv"}
          /\ \E arxiv_id \in {<<>>, <<"2101.00001", "v2">>} :
               IF arxiv_id # <<>>
               THEN Await(<<<<"https://", "arxiv.org", "/pdf/">>
                            \o BeforeV(arxiv_id) \o <<".pdf">>>>,
                          "arxiv_wait")
               ELSE Goto("doi")
     ELSE /\ Goto("doi")
          /\ UNCHANGED stages_run
  /\ NoReturn
  /\ UNCHANGED <<ch_counted, ch_total, ch_n, ch_paper, download_link, _validation_cache,
                 ch_hit, ch_raised, last_call,
                 selVars, paperVars, scrapeVars, fetchVars, fnVars, srvVars>>

\* _extract_doi_pdf, first part: the Unpaywall request; a response that is
\* not 200 and a response without url_for_pdf go on to doi.org like an
\* exception does
Unpaywall ==
  /\ ch_pc = "doi"
  /\ IF NoLinkYet(download_link) /\ ch_paper.DOI # <<>>
     THEN /\ stages_run' = stages_run \cup {"unpaywall"}
          /\ \E raised \in BOOLEAN, pdf_url \in {<<>>, UrlPaperPdf, UrlIndex} :
               IF raised
               THEN /\ ch_raised' = "unpaywall"
                    /\ IF CaughtInStage("unpaywall")
                       THEN Goto("doi_head") /\ NoReturn
                       ELSE ReturnNone(ch_n) /\ UNCHANGED probes
               ELSE /\ IF pdf_url # <<>>
                       THEN Await(<<pdf_url>>, "unpaywall_wait")
                       ELSE Goto("doi_head")
                    /\ NoReturn
                    /\ UNCHANGED ch_raised
     ELSE /\ Goto("page")
          /\ NoReturn
          /\ stages_run' = IF NoLinkYet(download_link)
                           THEN stages_run \cup {"unpaywall"} ELSE stages_run
          /\ UNCHANGED ch_raised
  /\ UNCHANGED <<ch_counted, ch_total, ch_n, ch_paper, download_link, _validation_cache,
                 ch_hit, last_call,
                 selVars, paperVars, scrapeVars, fetchVars, fnVars, srvVars>>

\* _extract_doi_pdf, second part: the HEAD request to doi.org and the
\* validation of the URL it ends at
DoiHead ==
  /\ ch_pc = "doi_head"
  /\ stages_run' = stages_run \cup {"doi_redirect"}
  /\ \E raised \in BOOLEAN, final_url \in {UrlIndex, UrlUpperPdf},
        content_type \in ContentTypes :
       IF raised
       THEN /\ ch_raised' = "doi_redirect"
            /\ IF CaughtInStage("doi_redirect")
               THEN Goto("page") /\ NoReturn
               ELSE ReturnNone(ch_n) /\ UNCHANGED probes
       ELSE /\ IF HasPair(Lower(content_type), "application/", "pdf")
                  \/ EndsWithPdf(Lower(final_url))
               THEN Await(<<final_url>>, "redirect_wait")
               ELSE Goto("page")
            /\ NoReturn
            /\ UNCHANGED ch_raised
  /\ UNCHANGED <<ch_counted, ch_total, ch_n, ch_paper, download_link, _validation_cache,
                 ch_hit, last_call,
                 selVars, paperVars, scrapeVars, fetchVars, fnVars, srvVars>>

\* what the extraction strategies of the paper page put into found_links
\* before the final deduplication: links of a fixed cyclic pool, distinct,
\* or the same with the first link found twice
FoundLists ==
  LET PagePool ==
        <<UrlPaperPdf, UrlUpperPdf, UrlRelativePdf, UrlIndex,
          <<"https://", "arxiv.org", "/pdf/", "2101.00001", ".pdf">>>>
      Rot(s, n) == [i \in 1..n |-> PagePool[((s + i - 2) % Len(PagePool)) + 1]]
  IN {Rot(s, n) : s \in 1..Len(PagePool), n \in 0..MaxFound}
     \cup {[i \in 1..n |-> IF i = 2 THEN Rot(1, n)[1] ELSE Rot(1, n)[i]] :
             n \in 2..MaxFound}

\* the last stage: _extract_pdf_from_paper_page up to the gather of the
\* first validations, and the link of the paper page when it gives nothing;
\* before the validation the scrape ends in one of four ways: Playwright is
\* missing, the navigation fails, an exception is raised, or the page gives
\* the links found
PageScrape ==
  /\ ch_pc = "page"
  /\ IF NoLinkYet(download_link) /\ ch_paper.paperId # ""
     THEN /\ stages_run' = stages_run \cup {"page_scrape"}
          /\ \E out \in [kind : {"unavailable", "no_page", "raised"},
                         links : {<<>>}]
                        \cup [kind : {"links"}, links : FoundLists] :
               LET unique_links == Unique(out.links, {}) IN
               /\ ch_raised' = IF out.kind = "raised" THEN "page_scrape"
                               ELSE ch_raised
               /\ IF out.kind = "raised" /\ ~CaughtInStage("page_scrape")
                  THEN /\ ReturnNone(ch_n)
                       /\ UNCHANGED <<download_link, probes>>
                  ELSE IF unique_links # <<>>
                  THEN /\ found_links' = unique_links
                       /\ Await(Batch(unique_links), "batch_wait")
                       /\ UNCHANGED <<download_link, paper_dict, ch_papers,
                                      seq_idx>>
                  ELSE /\ Return(_create_semantic_scholar_url(ch_paper.paperId))
                       /\ UNCHANGED probes
     ELSE /\ Return(download_link)
          /\ UNCHANGED <<probes, stages_run, ch_raised>>
  /\ UNCHANGED <<ch_counted, ch_total, ch_n, ch_paper, _validation_cache, ch_hit,
                 last_call, selVars, paperVars, scrapeVars, fetchVars, fnVars, srvVars>>

\* the gather returned: the first link of the batch that is valid, or the
\* first of the remaining links, or the link of the paper page
BatchReturn ==
  /\ ch_pc = "batch_wait"
  /\ AllDone(calls)
  /\ LET valid == {i \in 1..Len(calls) : calls[i].res} IN
     IF valid # {}
     THEN LET idx == CHOOSE i \in valid : \A k \in valid : i <= k IN
          /\ Return(found_links[idx])
          /\ ch_hit' = [stage |-> "page_scrape", url |-> found_links[idx]]
          /\ ch_counted' = ch_counted + 1
          /\ UNCHANGED probes
     ELSE IF Len(found_links) > Len(calls)
     THEN /\ seq_idx' = Len(calls) + 1
          /\ Await(<<found_links[Len(calls) + 1]>>, "seq_wait")
          /\ UNCHANGED <<download_link, paper_dict, ch_papers, found_links,
                         ch_hit, ch_counted>>
     ELSE /\ Return(_create_semantic_scholar_url(ch_paper.paperId))
          /\ UNCHANGED <<probes, ch_hit, ch_counted>>
  /\ UNCHANGED <<ch_total, ch_n, ch_paper, _validation_cache, stages_run,
                 ch_raised, last_call,
                 selVars, paperVars, scrapeVars, fetchVars, fnVars, srvVars>>

\* the validation of one of the remaining links returned
SeqReturn ==
  /\ ch_pc = "seq_wait"
  /\ AllDone(calls)
  /\ IF calls[1].res
     THEN /\ Return(found_links[seq_idx])
          /\ ch_hit' = [stage |-> "page_scrape", url |-> found_links[seq_idx]]
          /\ ch_counted' = ch_counted + 1
          /\ UNCHANGED probes
     ELSE IF seq_idx < Len(found_links)
     THEN /\ seq_idx' = seq_idx + 1
          /\ Await(<<found_links[seq_idx + 1]>>, "seq_wait")
          /\ UNCHANGED <<download_link, paper_dict, ch_papers, found_links,
                         ch_hit, ch_counted>>
     ELSE /\ Return(_create_semantic_scholar_url(ch_paper.paperId))
          /\ UNCHANGED <<probes, ch_hit, ch_counted>>
  /\ UNCHANGED <<ch_total, ch_n, ch_paper, _validation_cache, stages_run,
                 ch_raised, last_call,
                 selVars, paperVars, scrapeVars, fetchVars, fnVars, srvVars>>

NextChain ==
  \/ BeginPaper
  \/ ProbeReturn
  \/ OaReturn
  \/ FullDetails
  \/ StageReturn
  \/ Arxiv
  \/ Unpaywall
  \/ DoiHead
  \/ PageScrape
  \/ BatchReturn
  \/ SeqReturn

SpecChain == InitChain /\ [][NextChain]_vars

\* C13: the chain of a paper stops at the first stage that gives a validated
\* link: no stage after it is entered for that paper, and the link is the
\* download link of the paper, in the chain and in the dict returned.
C13_StopsAtFirstValidated ==
  LET StageOrder ==
        <<"openAccessPdf", "full_details", "arxiv", "unpaywall",
          "doi_redirect", "page_scrape">>
      StageRank(stage) ==
        CHOOSE i \in 1..Len(StageOrder) : StageOrder[i] = stage
  IN
  ch_hit.stage # "none" =>
    /\ download_link = ch_hit.url
    /\ \A s \in stages_run : StageRank(s) <= StageRank(ch_hit.stage)
    /\ ch_pc \in {"next", "done"} =>
         /\ paper_dict # NoDict
         /\ paper_dict.download_link = ch_hit.url

\* a paper with an id and a DOI got its link from the full-details lookup
\* and was returned without the later stages
C13_Witness ==
  /\ ch_pc = "done"
  /\ ch_hit.stage = "full_details"
  /\ ch_paper.paperId # ""
  /\ ch_paper.DOI # <<>>
  /\ stages_run = {"openAccessPdf", "full_details"}
  /\ paper_dict.download_link = ch_hit.url

C15_OneProbePerUrl ==
  /\ [](/\ \A u \in DOMAIN probes : probes[u] <= 1
        /\ \A u \in DOMAIN _validation_cache : probes[u] = 1
        /\ \A i \in 1..Len(calls) :
             /\ calls[i].cached => calls[i].state = "done"
             /\ (calls[i].state = "done" /\ StartsWithHttp(calls[i].url)) =>
                  /\ calls[i].url \in DOMAIN _validation_cache
                  /\ calls[i].res = _validation_cache[calls[i].url]
        /\ \A u \in ChainHttpUrls, o \in HeadOutcomes :
             o.kind # "response" => ~ProbeVerdict(u, o))
  /\ [][\A u \in DOMAIN _validation_cache :
          /\ u \in DOMAIN _validation_cache'
          /\ _validation_cache'[u] = _validation_cache[u]]_vars

\* a link of the paper page was rejected from the cache: its one probe was
\* made before the batch, and another link of the batch is in flight
C15_Witness ==
  /\ ch_pc = "batch_wait"
  /\ \E i, k \in 1..Len(calls) :
       /\ calls[i].cached
       /\ ~calls[i].res
       /\ probes[calls[i].url] = 1
       /\ calls[k].state = "flying"

\* C16: the links of one paper page are validated at most three at a time:
\* the batch is the first three distinct links, awaited together; a link of
\* the batch that validates is returned and none of the remaining links is
\* then validated; the remaining links are validated one by one, and only
\* after every link of the batch failed.
C16_BatchOfThree ==
  /\ Cardinality(Flying(calls)) <= 3
  /\ ch_pc = "batch_wait" =>
       /\ Len(calls) = Min(3, Len(found_links))
       /\ \A i \in 1..Len(calls) : calls[i].url = found_links[i]
       /\ \A i, k \in 1..Len(calls) : calls[i].url = calls[k].url => i = k
  /\ ch_pc = "seq_wait" =>
       /\ Len(calls) = 1
       /\ seq_idx > 3
       /\ calls[1].url = found_links[seq_idx]
       /\ \A i \in 1..(seq_idx - 1) :
            found_links[i] \in DOMAIN _validation_cache
              => ~_validation_cache[found_links[i]]

\* three probes of one batch are in flight and a fourth link waits
C16_Witness ==
  /\ ch_pc = "batch_wait"
  /\ Cardinality(Flying(calls)) = 3
  /\ Len(found_links) > 3

(***************************************************************************)
(* SpecValidate: calls of _validate_pdf_link one after the other, for any  *)
(* URL and any outcome of the HEAD probe, on one cache.                    *)
(***************************************************************************)

MaxCalls == 3

InitValidate ==
  /\ ch_pc = "v_call"
  /\ ch_total \in 1..MaxCalls
  /\ ch_n = 0
  /\ ch_paper = NoPaper
  /\ download_link = <<>>
  /\ ch_papers = <<>>
  /\ _validation_cache = EmptyCache
  /\ calls = <<>>
  /\ found_links = <<>>
  /\ seq_idx = 0
  /\ probes = [u \in ChainHttpUrls |-> 0]
  /\ stages_run = {}
  /\ ch_hit = NoHit
  /\ ch_raised = "none"
  /\ paper_dict = NoDict
  /\ last_call = NoCall
  /\ ch_counted = 0
  /\ SelectIdle
  /\ PaperIdle
  /\ ScrapeIdle
  /\ FetchIdle
  /\ FnIdle
  /\ ServerIdle

\* a call of _validate_pdf_link up to its return or its await, for a pdf_url
\* that is empty, whitespace, a link without scheme, or a link that can be
\* probed
ValidateCall ==
  /\ ch_pc = "v_call"
  /\ \E pdf_url \in {<<>>, <<" ">>, UrlRelativePdf} \cup ChainHttpUrls :
       LET c == Call(pdf_url) IN
       /\ probes' = Probed(<<c>>)
       /\ IF c.state = "done"
          THEN /\ last_call' = [url |-> pdf_url, cached |-> c.cached,
                                probed |-> FALSE, o |-> NoCall.o,
                                res |-> c.res, verified |-> "none",
                                retried |-> FALSE]
               /\ calls' = <<>>
               /\ ch_pc' = AfterCall(ch_n + 1)
          ELSE /\ calls' = <<c>>
               /\ ch_pc' = "v_wait"
               /\ UNCHANGED last_call
  /\ ch_n' = ch_n + 1
  /\ UNCHANGED <<ch_counted, ch_total, ch_paper, download_link, ch_papers,
                 _validation_cache, found_links, seq_idx, stages_run, ch_hit,
                 ch_raised, paper_dict,
                 selVars, paperVars, scrapeVars, fetchVars, fnVars, srvVars>>

\* a retry that follows every exception of the verified request
RetriesAfterAnyError(first) == first.kind # "response"

\* except requests.exceptions.SSLError: the request is repeated with
\* verify=False
RetriesUnverified(first) == first.kind = "SSLError"

\* the HEAD probe of the call ends: the verified request returns or raises,
\* after an SSLError the request is repeated without verification (an
\* SSLError of the repeated request is a RequestException of the outer
\* try); the verdict is cached and returned
ValidateProbe ==
  /\ ch_pc = "v_wait"
  /\ \E first \in HeadOutcomes
                  \cup {[kind |-> "SSLError", status_code |-> 0,
                         content_type |-> <<>>]} :
     \E o \in (IF RetriesUnverified(first) THEN HeadOutcomes ELSE {first}) :
       LET pdf_url == calls[1].url
           verdict == ProbeVerdict(pdf_url, o)
       IN /\ _validation_cache' = CachePut(_validation_cache, pdf_url, verdict)
          /\ last_call' = [url |-> pdf_url, cached |-> FALSE, probed |-> TRUE,
                           o |-> o, res |-> verdict,
                           verified |-> first.kind,
                           retried |-> RetriesUnverified(first)]
  /\ calls' = <<>>
  /\ ch_pc' = AfterCall(ch_n)
  /\ UNCHANGED <<ch_counted, ch_total, ch_n, ch_paper, download_link, ch_papers,
                 found_links, seq_idx, probes, stages_run, ch_hit, ch_raised,
                 paper_dict, selVars, paperVars, scrapeVars, fetchVars, fnVars, srvVars>>

NextValidate ==
  \/ ValidateCall
  \/ ValidateProbe

SpecValidate == InitValidate /\ [][NextValidate]_vars

\* C17: _validate_pdf_link returns True exactly when its probe ended with a
\* response whose status is from 200 to 399 and whose content type names
\* PDF or whose URL ends in .pdf; an empty URL and a URL that does not start
\* with http are rejected without a probe.
C17_ValidExactlyWhen ==
  LET url == last_call.url
      o == last_call.o
  IN /\ last_call.probed =>
          (last_call.res <=>
             /\ o.kind = "response"
             /\ o.status_code \in 200..399
             /\ \/ \E i \in 1..Len(o.content_type) :
                     o.content_type[i] \in {"pdf", "PDF"}
                \/ url[Len(url)] \in {".pdf", ".PDF"})
     /\ (last_call # NoCall
         /\ (url = <<>> \/ Head(url) \notin {"http://", "https://"})) =>
          /\ ~last_call.res
          /\ ~last_call.probed
          /\ ~last_call.cached
          /\ url \notin DOMAIN _validation_cache
     /\ last_call.res =>
          /\ url \in DOMAIN _validation_cache
          /\ _validation_cache[url]
          /\ probes[url] = 1

\* a link without extension was accepted by the content type of a 399
\* response, after a link without scheme was rejected
C17_Witness ==
  /\ last_call.probed
  /\ last_call.res
  /\ last_call.url = UrlIndex
  /\ last_call.o.status_code = 399
  /\ last_call.o.content_type = <<"application/", "PDF">>
  /\ ch_n = 2

(***************************************************************************)
(* SpecFetch: _fetch_author_papers, one call of the function for any       *)
(* configuration and any outcome of each call of collect.                  *)
(***************************************************************************)

MaxFetched == 2
MinBuffer == 10

RATE_LIMIT_BACKOFF == <<10, 30, 60>>

\* the number that stands for a citationCount of None
NoCount == -1

\* what one call of collect can do: return a list of papers with distinct
\* ids, some of them without a citation count, or a page of the API longer
\* than the smallest target_count; or raise
CollectOutcomes ==
  LET FetchedPapers == [paperId : {1, 2, 3}, citationCount : {NoCount, 0, 7}]
      LongList ==
        [i \in 1..(MinBuffer + 1) |->
           [paperId |-> 10 + i, citationCount |-> IF i % 3 = 0 THEN 7 ELSE 0]]
      FetchLists ==
        {s \in UNION {[1..n -> FetchedPapers] : n \in 0..MaxFetched} :
           \A i, j \in 1..Len(s) : s[i].paperId = s[j].paperId => i = j}
        \cup {LongList}
  IN [kind : {"ok"}, papers : FetchLists, cls : {"none"}, status : {0}]
     \cup [kind : {"raise"}, papers : {<<>>},
           cls : {"SemanticScholarException"}, status : {429, 404, 0}]
     \cup [kind : {"raise"}, papers : {<<>>}, cls : {"Exception"},
           status : {0}]

\* max(self.max_papers, self.search_buffer, self.min_top_results), with the
\* two buffers raised to 10 by the constructor
target_count(cfg) ==
  LET Max(a, b) == IF a > b THEN a ELSE b
  IN Max(cfg.max_papers,
         Max(Max(MinBuffer, cfg.search_buffer),
             Max(MinBuffer, cfg.min_top_results)))

\* the sort key: getattr(paper, "citationCount", 0) or 0
CitationKey(paper) ==
  IF paper.citationCount = NoCount THEN 0 ELSE paper.citationCount

RECURSIVE SortByCitations(_)
\* papers.sort(key=..., reverse=True): stable, most cited first; a paper
\* goes after every paper that has at least as many citations
SortByCitations(s) ==
  IF s = <<>> THEN <<>>
  ELSE LET p == s[Len(s)]
           r == SortByCitations(SubSeq(s, 1, Len(s) - 1))
           k == Cardinality({i \in 1..Len(r) :
                              CitationKey(r[i]) >= CitationKey(p)})
       IN SubSeq(r, 1, k) \o <<p>> \o SubSeq(r, k + 1, Len(r))

\* papers[:target_count] of the sorted list
TopPapers(fetched, target) ==
  SubSeq(SortByCitations(fetched), 1, Min(target, Len(fetched)))

\* a variant of the wait that sleeps the first delay of the schedule before
\* every retry
WaitFirst(attempt) == RATE_LIMIT_BACKOFF[1]

\* wait = self.RATE_LIMIT_BACKOFF[attempt], attempt counted from 0
Wait(attempt) == RATE_LIMIT_BACKOFF[attempt + 1]

\* a variant of the handlers that also goes to the next attempt after a
\* call that succeeded
AfterCollectRetryOk(o, attempt) ==
  IF o.kind = "ok" /\ attempt < Len(RATE_LIMIT_BACKOFF) THEN "sleep"
  ELSE IF o.kind = "ok" THEN "return"
  ELSE IF o.cls = "SemanticScholarException"
       THEN IF o.status = 429 /\ attempt < Len(RATE_LIMIT_BACKOFF)
            THEN "sleep" ELSE "raise"
  ELSE "break"

\* what the try statement of the loop does with the outcome of collect
AfterCollect(o, attempt) ==
  IF o.kind = "ok" THEN "return"
  ELSE IF o.cls = "SemanticScholarException"
       THEN IF o.status = 429 /\ attempt < Len(RATE_LIMIT_BACKOFF)
            THEN "sleep" ELSE "raise"
  ELSE "break"

InitFetch ==
  /\ ft_pc = "call"
  /\ \E cfg \in [max_papers : {1, 11}, search_buffer : {0, 10},
                 min_top_results : {0, 12}] :
       ft_target = target_count(cfg)
  /\ ft_attempt = 0
  /\ ft_calls = <<>>
  /\ ft_waits = <<>>
  /\ ft_return = <<>>
  /\ ft_error = NoError
  /\ SelectIdle
  /\ PaperIdle
  /\ ScrapeIdle
  /\ ChainIdle
  /\ FnIdle
  /\ ServerIdle

\* one pass of the loop body: collect is called, and its outcome is
\* handled up to the return, the raise, the break or the call of time.sleep
FetchAttempt ==
  /\ ft_pc = "call"
  /\ ft_attempt < Len(RATE_LIMIT_BACKOFF) + 1
  /\ \E o \in CollectOutcomes :
       LET todo == AfterCollect(o, ft_attempt) IN
       /\ ft_calls' = Append(ft_calls, o)
       /\ ft_pc' = CASE todo = "sleep" -> "sleep"
                     [] todo = "raise" -> "raised"
                     [] OTHER -> "returned"
       /\ ft_waits' = IF todo = "sleep"
                      THEN Append(ft_waits, Wait(ft_attempt))
                      ELSE ft_waits
       /\ ft_return' = IF todo = "return"
                       THEN TopPapers(o.papers, ft_target)
                       ELSE <<>>
       /\ ft_error' = IF todo = "raise"
                      THEN [cls |-> o.cls, status |-> o.status]
                      ELSE NoError
  /\ UNCHANGED <<ft_target, ft_attempt,
                 selVars, paperVars, scrapeVars, chainVars, fnVars, srvVars>>

\* time.sleep(wait) ends and continue starts the next attempt
FetchWake ==
  /\ ft_pc = "sleep"
  /\ ft_attempt' = ft_attempt + 1
  /\ ft_pc' = "call"
  /\ UNCHANGED <<ft_target, ft_calls, ft_waits, ft_return, ft_error,
                 selVars, paperVars, scrapeVars, chainVars, fnVars, srvVars>>

NextFetch ==
  \/ FetchAttempt
  \/ FetchWake

SpecFetch == InitFetch /\ [][NextFetch]_vars

\* C18: when every attempt got a 429 rate-limit error the function made
\* len(RATE_LIMIT_BACKOFF) + 1 calls, slept 10, 30 and 60 seconds in this
\* order, one sleep before each retry, and raised the rate-limit error of
\* the last call; while it is still running it has slept the first delays
\* of the schedule, one per call made.
C18_RetriesThenRaises ==
  LET n == Len(ft_calls)
      limited(i) == /\ ft_calls[i].cls = "SemanticScholarException"
                    /\ ft_calls[i].status = 429
  IN (\A i \in 1..n : limited(i)) =>
       /\ n <= Len(RATE_LIMIT_BACKOFF) + 1
       /\ ft_pc \in {"call", "sleep", "raised"}
       /\ ft_pc = "raised" <=> n = Len(RATE_LIMIT_BACKOFF) + 1
       /\ ft_pc = "raised" =>
            /\ ft_waits = <<10, 30, 60>>
            /\ ft_error = [cls |-> "SemanticScholarException", status |-> 429]
       /\ ft_pc = "sleep" => ft_waits = SubSeq(<<10, 30, 60>>, 1, n)
       /\ ft_pc = "call" => ft_waits = SubSeq(<<10, 30, 60>>, 1, n)
       /\ ft_pc = "call" => ft_attempt = n
       /\ ft_return = <<>>

\* four calls of collect were rate-limited and the error left the function
C18_Witness ==
  /\ ft_pc = "raised"
  /\ Len(ft_calls) = 4
  /\ \A i \in 1..4 : ft_calls[i].status = 429
  /\ ft_waits = <<10, 30, 60>>
  /\ ft_error.status = 429

\* C19: a call of collect that succeeded is the last one: the function has
\* returned the papers of that call, most cited first and cut to
\* target_count, and when it was call number k the function slept k - 1
\* times, the first k - 1 delays of the schedule.
C19_SuccessEndsTheLoop ==
  \A k \in 1..Len(ft_calls) :
    ft_calls[k].kind = "ok" =>
      /\ k = Len(ft_calls)
      /\ ft_pc = "returned"
      /\ Len(ft_waits) = k - 1
      /\ ft_waits = SubSeq(RATE_LIMIT_BACKOFF, 1, k - 1)
      /\ ft_error = NoError
      /\ Len(ft_return) = Min(ft_target, Len(ft_calls[k].papers))
      /\ \A i \in 1..Len(ft_return) :
           \E j \in 1..Len(ft_calls[k].papers) :
             ft_return[i] = ft_calls[k].papers[j]
      /\ \A i, j \in 1..Len(ft_return) :
           i < j => CitationKey(ft_return[i]) >= CitationKey(ft_return[j])

\* the second call succeeded after one rate-limited call and one sleep, and
\* its two papers were returned with the most cited first
C19_Witness ==
  /\ ft_pc = "returned"
  /\ Len(ft_calls) = 2
  /\ ft_calls[1].status = 429
  /\ ft_calls[2].kind = "ok"
  /\ ft_waits = <<10>>
  /\ Len(ft_return) = 2
  /\ ft_return[1] = ft_calls[2].papers[2]
  /\ ft_return[1].citationCount = 7

\* C20: a call of collect that failed with an error other than a 429
\* rate-limit error is the last one, there was no sleep after it, and the
\* error left the function: no list was returned in its place.
C20_OtherErrorsPropagate ==
  \A k \in 1..Len(ft_calls) :
    (ft_calls[k].kind = "raise"
     /\ ~(ft_calls[k].cls = "SemanticScholarException"
          /\ ft_calls[k].status = 429)) =>
      /\ k = Len(ft_calls)
      /\ Len(ft_waits) = k - 1
      /\ ft_pc = "raised"
      /\ ft_error = [cls |-> ft_calls[k].cls, status |-> ft_calls[k].status]

(***************************************************************************)
(* SpecFn: single calls of functions that keep no state between calls.     *)
(* fn_arg holds the arguments of the call and what the page or the API     *)
(* gives the function while it runs.                                       *)
(***************************************************************************)

MaxItems == 2
MaxCounted == 2

\* a series in the order the strategy gave it
KeepOrder(trend_data) == trend_data

RECURSIVE SortByYear(_)
\* trend_data.sort(key=lambda x: int(x['year'])): stable, ascending
SortByYear(trend_data) ==
  IF trend_data = <<>> THEN <<>>
  ELSE LET p == trend_data[Len(trend_data)]
           r == SortByYear(SubSeq(trend_data, 1, Len(trend_data) - 1))
           k == Cardinality({i \in 1..Len(r) : r[i].year <= p.year})
       IN SubSeq(r, 1, k) \o <<p>> \o SubSeq(r, k + 1, Len(r))

\* _extract_citation_trend: chart is the data each of the four page.evaluate
\* calls gives (window variables, chart structure, DataTable, DOM), a list
\* of [year, citations] items whose entries are JSON numbers, numeric
\* strings, other strings or null
_extract_citation_trend(chart) ==
  LET \* int(x) gives a number; it raises for null and for other strings
      Parses(x) == x.t \in {"int", "numstr"}
      \* len(str(n))
      StrLen(n) ==
        LET Digits(k) == IF k < 10 THEN 1 ELSE IF k < 100 THEN 2
                         ELSE IF k < 1000 THEN 3 ELSE IF k < 10000 THEN 4
                         ELSE 5
        IN IF n < 0 THEN 1 + Digits(-n) ELSE Digits(n)
      \* the citations of an item under each method
      Citations(method, x) ==
        IF x.t = "int" THEN x.n
        ELSE IF method = 3 /\ x.t = "numstr" THEN x.n
        ELSE 0
      \* the test before trend_data.append
      Accepted(method, year, citations) ==
        /\ method \in {1, 2, 3} => StrLen(year) = 4
        /\ citations >= 0
      Kept(method, items) ==
        SelectSeq(items,
                  LAMBDA item :
                    /\ Parses(item[1])
                    /\ Accepted(method, item[1].n,
                                Citations(method, item[2])))
      Points(method, items) ==
        LET k == Kept(method, items)
        IN [i \in 1..Len(k) |->
              [year |-> k[i][1].n,
               citations |-> Citations(method, k[i][2])]]
      trend_data ==
        IF Points(1, chart[1]) # <<>> THEN Points(1, chart[1])
        ELSE IF Points(2, chart[2]) # <<>> THEN Points(2, chart[2])
        ELSE IF Points(3, chart[3]) # <<>> THEN Points(3, chart[3])
        ELSE Points(4, chart[4])
  IN SortByYear(trend_data)

\* the calls made: the function and its inputs
\* the citation counts of the records built from the papers of one source,
\* in order: the rows of a Google Scholar page (first pass of
\* _extract_papers_from_page, where the break of the last fallback leaves
\* the loop over the rows and where re is a local name bound only when the
\* row has a second div.gs_gray) or the papers of Semantic Scholar
\* (_extract_paper_metadata)
citations(scraper, source) ==
  LET Missing == [t |-> "missing", n |-> 0]
      Str(x) == [t |-> "numstr", n |-> x.n]
      \* what the row gives, or "break"
      OfRow(row) ==
        IF row.pubs <= 1 THEN Missing
        ELSE IF row.cell.t = "numstr" THEN Str(row.cell)
        ELSE IF row.link.t = "numstr" THEN Str(row.link)
        ELSE IF row.text = "raises" THEN Missing
        ELSE [t |-> "break", n |-> 0]
      Stops == {i \in 1..Len(source) : OfRow(source[i]).t = "break"}
      last == IF Stops = {} THEN Len(source)
              ELSE (CHOOSE i \in Stops : \A j \in Stops : i <= j) - 1
  IN IF scraper = "semantic"
     THEN [i \in 1..Len(source) |->
             IF source[i].t = "int" /\ source[i].n # 0 THEN Str(source[i])
             ELSE [t |-> "numstr", n |-> 0]]
     ELSE [i \in 1..last |-> OfRow(source[i])]

\* a scrape_profile without its handlers: the failure of the resolution
\* reaches the caller
scrape_profile_unhandled(scraper, x) ==
  [raised |-> ~x.found \/ ~x.load.ok,
   papers |-> IF x.found /\ x.load.ok THEN x.load.papers ELSE <<>>]

\* scrape_profile of the two scrapers, as (raised, papers). Semantic
\* Scholar: x.by is the form of the input (a numeric id goes to get_author,
\* a name to search_author), x.api what the call does, x.load what
\* _fetch_author_papers does. Google Scholar: x.api is what page.goto does,
\* x.found whether div#gsc_prf shows up, x.load what _scrape_papers does.
scrape_profile(scraper, x) ==
  LET \* _resolve_author: a failed call, an id that names nobody and an
      \* empty search result all leave as a ValueError, for both forms
      resolved == x.api = "ok" /\ x.found
      Records(found) == [i \in 1..Len(found) |-> [title |-> found[i]]]
  IN IF scraper = "semantic"
     THEN IF ~resolved THEN [raised |-> FALSE, papers |-> <<>>]
          ELSE IF ~x.load.ok THEN [raised |-> TRUE, papers |-> <<>>]
          ELSE [raised |-> FALSE, papers |-> Records(x.load.papers)]
     ELSE IF x.api = "raises" THEN [raised |-> FALSE, papers |-> <<>>]
          ELSE IF ~x.found THEN [raised |-> FALSE, papers |-> <<>>]
          ELSE IF ~x.load.ok THEN [raised |-> FALSE, papers |-> <<>>]
          ELSE [raised |-> FALSE, papers |-> Records(x.load.papers)]

\* _find_scihub_link: pages[i] is what the i-th domain of scihub_domains
\* does: nav is the outcome of page.goto ("redirected" when page.url is not
\* a mirror's), text what the body shows ("raises" when it cannot be read),
\* link whether the six strategies find a link on the page
_find_scihub_link(doi, title, pages) ==
  LET scihub_domains == <<"sci-hub.se", "sci-hub.st", "sci-hub.ru">>
      Scanned(domain_idx) ==
        /\ pages[domain_idx].nav = "ok"
        /\ ~(pages[domain_idx].text = "captcha"
             /\ domain_idx < Len(scihub_domains))
      Found == {i \in 1..Len(scihub_domains) : Scanned(i) /\ pages[i].link}
  IN IF ~doi /\ ~title THEN <<>>
     ELSE IF Found = {} THEN <<>>
     ELSE <<"https://", scihub_domains[CHOOSE i \in Found : \A j \in Found : i <= j],
            "/paper", ".pdf">>

FnInputs(name) ==
  LET Years == [t : {"int"}, n : {2019, 2020, 99}] \cup {[t |-> "none", n |-> 0]}
      Counts == [t : {"int"}, n : {5, -1}]
                \cup {[t |-> "none", n |-> 0], [t |-> "numstr", n |-> 12]}
      Items == {<<y, c>> : y \in Years, c \in Counts}
      Lists == UNION {[1..n -> Items] : n \in 0..MaxItems}
      Null == [t |-> "none", n |-> 0]
      Y(n) == [t |-> "int", n |-> n]
      Before == {<<>>, <<<<Null, Y(5)>>>>}
      After == {<<>>, <<<<Y(2021), Y(1)>>>>}
  IN CASE name = "_extract_citation_trend" ->
            {<<a, <<>>, c, d>> : a \in Lists, c \in After, d \in After}
            \cup {<<<<>>, b, <<>>, d>> : b \in Lists, d \in After}
            \cup {<<a, <<>>, c, d>> : a \in Before, c \in Lists, d \in After}
            \cup {<<a, <<>>, c, d>> : a \in Before, c \in Before, d \in Lists}
       [] name = "_score_candidate" ->
            {<<<<"https://", host>> \o path \o tail, source>> :
               host \in {"example.org", "arxiv.org", "scholar.google.com",
                         "scholar.googleusercontent.com"},
               path \in {<<>>, <<"/index">>, <<"/scholar_url">>,
                         <<"/citations?", "view_op=view_citation">>},
               tail \in {<<>>, <<".pdf">>, <<"PDF">>, <<"pdf", "/index">>},
               source \in {"row_anchor", "data_attr", "row_data", "data_clk",
                           "page_anchor", "page_anchor_attr", "link_rel", "scihub"}}
       [] name = "_extract_doi_from_url" ->
            {<<head \o mark \o cont \o punct \o rest>> :
               head \in {<<"https://">>, <<"https://", "example.org">>},
               mark \in {<<"doi.org", "/10.1234/x">>, <<"/doi", "/10.1234/x">>,
                         <<"/doi/pdf", "/10.1234/x">>, <<"doi=", "10.1234/x">>,
                         <<"DOI=", "10.1234/x">>, <<"doi:", "10.1234/x">>,
                         <<"/index">>, <<"doi.org", "/index">>, <<"/10.1234/x">>,
                         <<"/doi", "10.1234/x">>},
               cont \in {<<>>, <<".5678">>, <<".", ".5678">>},
               punct \in {<<>>, <<".">>, <<")", ".">>},
               rest \in {<<>>, <<"?", "x=1">>, <<"#", "x=1">>, <<" ", "x=1">>,
                         <<"&", "doi=", "10.1234/x", ".5678">>}}
       [] name = "_find_scihub_link" ->
            LET Pages == [nav : {"fails", "redirected"}, text : {"plain"}, link : {FALSE}]
                         \cup [nav : {"ok"}, text : {"plain", "captcha", "raises"},
                               link : BOOLEAN]
            IN {<<doi, title, pages>> :
                  doi \in BOOLEAN, title \in BOOLEAN, pages \in [1..3 -> Pages]}
       [] name = "scrape_profile" ->
            {<<scraper, x>> :
               scraper \in {"semantic", "scholar"},
               x \in [by : {"id", "name"}, api : {"ok", "raises"}, found : BOOLEAN,
                      load : [ok : BOOLEAN, papers : {<<>>, <<"a">>, <<"a", "b">>}]]}
       [] name = "citations" ->
            LET Cells == {Null, [t |-> "numstr", n |-> 0], [t |-> "numstr", n |-> 5]}
                Rows == [cell : Cells, link : {Null}, text : {"raises", "plain", "cited"},
                         pubs : {1, 2}]
                        \cup {[cell |-> Null, link |-> [t |-> "numstr", n |-> 7],
                               text |-> "plain", pubs |-> 2]}
                Papers == {Null, Y(0), Y(5)}
            IN {<<"scholar", rows>> :
                  rows \in UNION {[1..n -> Rows] : n \in 0..MaxCounted}}
               \cup {<<"semantic", found>> :
                       found \in UNION {[1..n -> Papers] : n \in 0..MaxCounted}}

InitFn ==
  /\ fn_pc = "call"
  /\ fn_name \in {"_extract_citation_trend", "citations", "scrape_profile",
                  "_score_candidate", "_extract_doi_from_url", "_find_scihub_link"}
  /\ fn_arg \in FnInputs(fn_name)
  /\ fn_res = <<>>
  /\ SelectIdle
  /\ PaperIdle
  /\ ScrapeIdle
  /\ ChainIdle
  /\ FetchIdle
  /\ ServerIdle

\* what is left alone by a call
FnFrame ==
  UNCHANGED <<fn_name, fn_arg, selVars, paperVars, scrapeVars, chainVars,
              fetchVars, srvVars>>

TrendCall ==
  /\ fn_pc = "call"
  /\ fn_name = "_extract_citation_trend"
  /\ fn_res' = _extract_citation_trend(fn_arg)
  /\ fn_pc' = "returned"
  /\ FnFrame

CitationsCall ==
  /\ fn_pc = "call"
  /\ fn_name = "citations"
  /\ fn_res' = citations(fn_arg[1], fn_arg[2])
  /\ fn_pc' = "returned"
  /\ FnFrame

ProfileCall ==
  /\ fn_pc = "call"
  /\ fn_name = "scrape_profile"
  /\ fn_res' = scrape_profile(fn_arg[1], fn_arg[2])
  /\ fn_pc' = "returned"
  /\ FnFrame

ScoreCall ==
  /\ fn_pc = "call"
  /\ fn_name = "_score_candidate"
  /\ fn_res' = _score_candidate(fn_arg[1], fn_arg[2])
  /\ fn_pc' = "returned"
  /\ FnFrame

DoiCall ==
  /\ fn_pc = "call"
  /\ fn_name = "_extract_doi_from_url"
  /\ fn_res' = _extract_doi_from_url(fn_arg[1])
  /\ fn_pc' = "returned"
  /\ FnFrame

MirrorCall ==
  /\ fn_pc = "call"
  /\ fn_name = "_find_scihub_link"
  /\ fn_res' = _find_scihub_link(fn_arg[1], fn_arg[2], fn_arg[3])
  /\ fn_pc' = "returned"
  /\ FnFrame

NextFn ==
  \/ ScoreCall
  \/ MirrorCall
  \/ DoiCall
  \/ TrendCall
  \/ CitationsCall
  \/ ProfileCall

SpecFn == InitFn /\ [][NextFn]_vars

\* C21: every point of the series returned by _extract_citation_trend is an
\* item of the chart data whose year is a 4-digit value and whose count is a
\* non-negative integer, with that year and that count: an item that is not
\* is dropped, not given a count of zero, and chart data without such an item
\* gives the empty series.
C21_InvalidItemsDropped ==
  (fn_pc = "returned" /\ fn_name = "_extract_citation_trend") =>
    \A i \in 1..Len(fn_res) :
      \E m \in 1..4 : \E j \in 1..Len(fn_arg[m]) :
        LET year == fn_arg[m][j][1]
            count == fn_arg[m][j][2]
        IN /\ year.t \in {"int", "numstr"}
           /\ year.n \in 1000..9999
           /\ year.n = fn_res[i].year
           /\ count.t \in {"int", "numstr"}
           /\ count.n >= 0
           /\ count.n = fn_res[i].citations

\* C22: the series returned by _extract_citation_trend is in ascending order
\* of year.
C22_SortedByYear ==
  (fn_pc = "returned" /\ fn_name = "_extract_citation_trend") =>
    \A i, j \in 1..Len(fn_res) : i < j => fn_res[i].year <= fn_res[j].year

\* the last strategy gave 2020 before 2019 and the series has 2019 first
C22_Witness ==
  /\ fn_pc = "returned"
  /\ fn_name = "_extract_citation_trend"
  /\ Len(fn_arg[4]) = 2
  /\ fn_arg[4][1][1].n = 2020
  /\ fn_arg[4][2][1].n = 2019
  /\ Len(fn_res) = 2
  /\ fn_res[1].year = 2019
  /\ fn_res[2].year = 2020

\* C24: every paper of the source is emitted; a paper whose source gives no
\* citation count carries the missing sentinel, and a count of 0 is emitted
\* only for a paper whose source reports 0.
C24_MissingIsNeverZero ==
  (fn_pc = "returned" /\ fn_name = "citations") =>
    LET source == fn_arg[2]
        Given(i) == IF fn_arg[1] = "semantic" THEN source[i]
                    ELSE IF source[i].cell.t # "none" THEN source[i].cell
                    ELSE IF source[i].link.t # "none" THEN source[i].link
                    ELSE IF source[i].text = "cited" THEN [t |-> "numstr", n |-> 12]
                    ELSE [t |-> "none", n |-> 0]
    IN /\ Len(fn_res) = Len(source)
       /\ \A i \in 1..Len(source) :
            /\ Given(i).t = "none" => fn_res[i].t = "missing"
            /\ (fn_res[i].t = "numstr" /\ fn_res[i].n = 0) =>
                 (Given(i).t # "none" /\ Given(i).n = 0)

\* C25: when the author cannot be resolved (the lookup fails or finds
\* nobody, the profile page does not load or shows no profile),
\* scrape_profile returns an empty list and does not raise.
C25_UnresolvedGivesEmpty ==
  (fn_pc = "returned" /\ fn_name = "scrape_profile"
     /\ (fn_arg[2].api = "raises" \/ ~fn_arg[2].found)) =>
    (~fn_res.raised /\ fn_res.papers = <<>>)

\* a search by name that found nobody returned, while the author's papers
\* could have been loaded
C25_Witness ==
  /\ fn_pc = "returned"
  /\ fn_name = "scrape_profile"
  /\ fn_arg[1] = "semantic"
  /\ fn_arg[2].by = "name"
  /\ fn_arg[2].api = "ok"
  /\ ~fn_arg[2].found
  /\ fn_arg[2].load.ok
  /\ fn_arg[2].load.papers # <<>>
  /\ fn_res.papers = <<>>

\* C26: _score_candidate returns 0 for a URL that ends in ".pdf" or is on
\* scholar.googleusercontent.com, 1 for every other URL that contains "pdf"
\* or is on a repository domain, and more than 1 for every remaining URL.
C26_TiersZeroAndOne ==
  (fn_pc = "returned" /\ fn_name = "_score_candidate") =>
    LET lower_url == Lower(fn_arg[1])
        hosted == \/ lower_url[Len(lower_url)] = ".pdf"
                  \/ \E i \in 1..Len(lower_url) :
                       lower_url[i] = "scholar.googleusercontent.com"
        fulltext == \E i \in 1..Len(lower_url) :
                      lower_url[i] \in {"pdf", ".pdf", "arxiv.org"}
    IN /\ hosted => fn_res = 0
       /\ (~hosted /\ fulltext) => fn_res = 1
       /\ (~hosted /\ ~fulltext) => fn_res > 1

\* a URL with "pdf" inside it, not at its end, got 1, and so did a
\* repository URL without "pdf"
C26_Witness ==
  /\ fn_pc = "returned"
  /\ fn_name = "_score_candidate"
  /\ fn_res = 1
  /\ fn_arg[1] \in {<<"https://", "example.org", "pdf", "/index">>,
                    <<"https://", "arxiv.org", "/index">>}

\* C27: every URL that _is_scholar_profile_link classifies as a profile link
\* is scored 9, whatever the source label.
C27_ProfileLinksScoreNine ==
  (fn_pc = "returned" /\ fn_name = "_score_candidate"
     /\ _is_scholar_profile_link(fn_arg[1])) => fn_res = 9

\* C28: a URL in no better tier (not 0, not 1, not a profile link) is scored
\* 2 when its source label is one of the attribute scans (row attributes,
\* attributes of the row's anchors, attributes of the detail page's
\* anchors) and 3 otherwise.
C28_ScannedScoresTwo ==
  (fn_pc = "returned" /\ fn_name = "_score_candidate" /\ fn_res \notin {0, 1, 9}) =>
    fn_res = IF fn_arg[2] \in {"row_data", "data_attr", "page_anchor_attr", "data_clk"}
             THEN 2 ELSE 3

\* C30: _extract_doi_from_url returns a DOI embedded in the URL: the text
\* that starts with "10." after doi.org/, after a /doi/ path segment or
\* after doi= or doi:, up to the first ?, &, # or whitespace, without its
\* trailing punctuation; it returns the empty string when the URL holds no
\* such pattern.
C30_DoiFromUrl ==
  (fn_pc = "returned" /\ fn_name = "_extract_doi_from_url") =>
    LET url == fn_arg[1]
        Embedded == {i \in 1..(Len(url) - 1) :
                       \/ /\ url[i] \in {"doi.org", "/doi", "/doi/pdf"}
                          /\ url[i + 1] = "/10.1234/x"
                       \/ /\ url[i] \in {"doi=", "DOI=", "doi:"}
                          /\ url[i + 1] = "10.1234/x"}
        \* the tokens behind the first token of the DOI at i, up to the cut
        Run(i) == LET Cuts == {j \in (i + 2)..Len(url) : url[j] \in {"?", "&", "#", " "}}
                  IN SubSeq(url, i + 2,
                            IF Cuts = {} THEN Len(url)
                            ELSE (CHOOSE a \in Cuts : \A b \in Cuts : a <= b) - 1)
        Punct == {".", ",", ";", ":", ")", "]"}
    IN IF Embedded = {} THEN fn_res = <<>>
       ELSE \E i \in Embedded : \E m \in 0..Len(Run(i)) :
              /\ fn_res = <<"10.1234/x">> \o SubSeq(Run(i), 1, m)
              /\ fn_res[Len(fn_res)] \notin Punct
              /\ \A j \in (m + 1)..Len(Run(i)) : Run(i)[j] \in Punct

\* a DOI behind /doi/pdf/ came back cut at the "?" and without the ")."
\* that ended it
C30_Witness ==
  /\ fn_pc = "returned"
  /\ fn_name = "_extract_doi_from_url"
  /\ fn_arg[1] = <<"https://", "example.org", "/doi/pdf", "/10.1234/x", ".5678",
                   ")", ".", "?", "x=1">>
  /\ fn_res = <<"10.1234/x", ".5678">>

\* C29: the mirror lookup returns the link of the first domain, in the
\* order se, st, ru, whose navigation succeeded on a mirror page that shows
\* no captcha or error state and holds a link; a domain that failed or
\* shows such a state gives no link, the last one included.
C29_FirstGoodDomainWins ==
  (fn_pc = "returned" /\ fn_name = "_find_scihub_link" /\ (fn_arg[1] \/ fn_arg[2])) =>
    LET pages == fn_arg[3]
        Good == {i \in 1..3 : pages[i].nav = "ok" /\ pages[i].text # "captcha"
                               /\ pages[i].link}
    IN IF Good = {} THEN fn_res = <<>>
       ELSE fn_res = <<"https://",
                       <<"sci-hub.se", "sci-hub.st", "sci-hub.ru">>[
                           CHOOSE i \in Good : \A j \in Good : i <= j],
                       "/paper", ".pdf">>

\* C31: every candidate in the candidate store of a paper has a non-empty
\* URL that starts with http:// or https://
C31_StoreHoldsHttpUrls ==
  \A i \in 1..Len(paper_data.download_candidates) :
    IsHttp(paper_data.download_candidates[i].url)

\* C32: the probe is repeated without verification exactly when the
\* verified request raised SSLError; after a timeout, another request
\* exception or a status outside 200..399 of the verified request there is
\* no repeated request and the call returns False
C32_RetryOnlyAfterSslError ==
  last_call.probed =>
    /\ last_call.retried <=> last_call.verified = "SSLError"
    /\ (\/ last_call.verified \in {"Timeout", "RequestException", "Exception"}
        \/ (last_call.verified = "response"
            /\ last_call.o.status_code \notin 200..399)) =>
         (~last_call.retried /\ ~last_call.res
          /\ ~_validation_cache[last_call.url])

\* a link was accepted by the response of the unverified request
C32_Witness ==
  /\ last_call.probed
  /\ last_call.verified = "SSLError"
  /\ last_call.retried
  /\ last_call.o.kind = "response"
  /\ last_call.res

\* C33: when the second pass ends the native scans of a paper that has a
\* title and every link the row and the detail page offered is a profile
\* or listing-page link (or there is none), the next step is the mirror
\* lookup
C33_NoDocumentLinkReachesMirror ==
  [][(/\ pp_pc = "second"
      /\ pp_has_title
      /\ \A i \in 1..Len(pp_offers') :
           _is_scholar_profile_link(pp_offers'[i].url))
     => pp_pc' = "mirror"]_vars

\* C34: a visit of the detail page keeps what the page yields: the year
\* and the citation trend found there are stored when the field of the
\* record was empty, and every candidate found there is in the candidate
\* list of the paper afterwards
C34_DetailYieldKept ==
  [][Len(pp_detail') > Len(pp_detail) =>
       LET d == pp_detail'[Len(pp_detail')] IN
       /\ (paper_data.year = "" /\ d.year_from_detail # "") =>
            paper_data'.year = d.year_from_detail
       /\ (paper_data.citation_trend = <<>> /\ d.citation_trend # <<>>) =>
            paper_data'.citation_trend = d.citation_trend
       /\ \A i \in 1..Len(d.detail_candidates) :
            \E j \in 1..Len(paper_data'.download_candidates) :
              paper_data'.download_candidates[j].url = d.detail_candidates[i].url]_vars

\* C36: a paper that is returned with candidates has the URL that
\* _select_preferred_candidate picks from them as its download_link and as
\* the final_download_link of its debug record
C36_LinkIsSelection ==
  (pp_pc = "done" /\ paper_data.download_candidates # <<>>) =>
    /\ paper_data.download_link =
         _select_preferred_candidate(paper_data.download_candidates).url
    /\ final_download_link =
         _select_preferred_candidate(paper_data.download_candidates).url

\* C35: a pass of the while loop of _scrape_papers that does not end the
\* loop leaves more papers collected than it found, and the body of the
\* loop runs at most max_papers times
C35_LoopBounded ==
  /\ [](sp_passes <= max_papers)
  /\ [][(sp_passes' > sp_passes /\ sp_pc' # "done")
          => Len(papers') > Len(papers)]_vars

\* the loop ended after max_papers passes, three or more
C35_Witness ==
  /\ sp_pc = "done"
  /\ sp_passes = max_papers
  /\ max_papers >= 3

\* C37: the download_link of a returned record is a URL that
\* _validate_pdf_link accepted, or the link of the paper page, or empty, and
\* empty only for a paper without paperId; the counter of links found goes
\* up at most once for a paper, and once exactly when the link of the
\* record is an accepted URL
C37_LinkValidatedOrFallback ==
  LET link == paper_dict.download_link
      accepted == link # <<>> /\ link \in DOMAIN _validation_cache
                  /\ _validation_cache[link]
  IN /\ ch_counted \in {0, 1}
     /\ paper_dict # NoDict =>
          /\ \/ accepted
             \/ link = _create_semantic_scholar_url(paper_dict.paperId)
             \/ link = <<>>
          /\ link = <<>> => paper_dict.paperId = ""
          /\ ch_counted = 1 <=> accepted

\* the second paper of a run was returned with a link of its paper page,
\* validated after the stages before the page scrape gave none
C37_Witness ==
  /\ paper_dict # NoDict
  /\ ch_n = 2
  /\ ch_counted = 1
  /\ ch_hit.stage = "page_scrape"
  /\ paper_dict.download_link = ch_hit.url
  /\ "unpaywall" \in stages_run

(***************************************************************************)
(* The server (server.py).  Every coroutine runs on the one thread of the  *)
(* event loop: a step of a task is what it does from one suspending await  *)
(* to the next, and a request is answered between two such steps.  A call  *)
(* handed to asyncio.to_thread suspends the task and leaves the loop free; *)
(* time.sleep keeps the thread of the loop until it returns.               *)
(***************************************************************************)

\* the most jobs started, and the most papers a request asks for
MaxJobs == 2
MaxSelected == 2

\* the task of a job that ended: nothing left to run
TaskDone ==
  [pc |-> "done", attempt |-> 0, idx |-> 0, n |-> 0, got |-> 0]

\* progress_handler of run_scrape_job: the stage and the percentage rounded
\* and kept within 0..100
progress_handler(job, stage, percentage) ==
  [job EXCEPT !.stage = stage,
              !.percentage = Min(100, IF percentage < 0 THEN 0 ELSE percentage)]

\* POST /api/scrape: 400 for a profile URL whose path does not end in a
\* numeric id, else a queued job and its task, scheduled on the loop
start_scrape ==
  /\ loop_thread = 0
  /\ Len(jobs) < MaxJobs
  /\ \E path_parts \in {<<"", "author", "Name", "123">>,
                        <<"", "author", "Name">>, <<"123">>} :
       IF Len(path_parts) >= 2 /\ path_parts[Len(path_parts)] \in {"123"}
       THEN /\ jobs' = Append(jobs, [status |-> "queued", stage |-> "",
                                     percentage |-> 0, result |-> <<>>,
                                     error |-> ""])
            /\ tasks' = Append(tasks, [TaskDone EXCEPT !.pc = "created"])
            /\ last_response' = [NoResponse EXCEPT !.code = 200]
       ELSE /\ last_response' = [NoResponse EXCEPT !.code = 400]
            /\ UNCHANGED <<jobs, tasks>>
  /\ UNCHANGED <<loop_thread, selVars, paperVars, scrapeVars, chainVars,
                 fetchVars, fnVars>>

\* GET /api/status/{job_id}: the job as it stands, 404 for an unknown id
scrape_status ==
  /\ loop_thread = 0
  /\ \E job_id \in 1..MaxJobs :
       last_response' =
         IF job_id \in DOMAIN jobs
         THEN [code |-> 200, status |-> jobs[job_id].status,
               percentage |-> jobs[job_id].percentage]
         ELSE [NoResponse EXCEPT !.code = 404]
  /\ UNCHANGED <<jobs, tasks, loop_thread, selVars, paperVars, scrapeVars,
                 chainVars, fetchVars, fnVars>>

\* a variant of the first step that gives the loop back after the writes of
\* run_scrape_job, before the first callback of the scraper
RunStartSuspends(job) ==
  [job EXCEPT !.status = "running", !.percentage = 5]

\* the job after the first step of its task: the writes of run_scrape_job
\* and the first callback of scrape_profile, made by _resolve_author before
\* its first await
RunStart(job) ==
  progress_handler([job EXCEPT !.status = "running", !.percentage = 5],
                   "Fetching author data", 0)

\* a variant of the end of the job that sets no result
AfterScrapeNoResult(job, got, exc) ==
  IF exc # "" THEN [job EXCEPT !.status = "failed", !.error = exc,
                               !.percentage = 100]
  ELSE IF got = 0 THEN [job EXCEPT !.status = "failed", !.percentage = 100]
  ELSE [job EXCEPT !.status = "completed", !.percentage = 100,
                   !.stage = "Completed"]

\* run_scrape_job once scrape_profile is over: exc is the exception that
\* left the try block ("" for none), got the number of papers returned
AfterScrape(job, got, exc) ==
  IF exc # "" THEN [job EXCEPT !.status = "failed", !.error = exc,
                               !.percentage = 100]
  ELSE IF got = 0 THEN [job EXCEPT !.status = "failed", !.percentage = 100]
  ELSE [job EXCEPT !.status = "completed", !.percentage = 100,
                   !.stage = "Completed", !.result = <<got>>]

\* the first step of the task of job j, up to the await of _resolve_author
run_scrape_job(j) ==
  /\ loop_thread = 0
  /\ tasks[j].pc = "created"
  /\ jobs' = [jobs EXCEPT ![j] = RunStart(@)]
  /\ tasks' = [tasks EXCEPT ![j].pc = "resolve"]
  /\ UNCHANGED <<loop_thread, last_response, selVars, paperVars, scrapeVars,
                 chainVars, fetchVars, fnVars>>

\* get_author returned or raised: the callback "Fetching papers" and the
\* first call of collect, or an empty list of papers
ResolveReturn(j) ==
  /\ loop_thread = 0
  /\ tasks[j].pc = "resolve"
  /\ \E found \in BOOLEAN :
       IF found
       THEN /\ jobs' = [jobs EXCEPT
                          ![j] = progress_handler(@, "Fetching papers", 0)]
            /\ tasks' = [tasks EXCEPT ![j].pc = "fetch"]
       ELSE /\ jobs' = [jobs EXCEPT ![j] = AfterScrape(@, 0, "")]
            /\ tasks' = [tasks EXCEPT ![j] = TaskDone]
  /\ UNCHANGED <<loop_thread, last_response, selVars, paperVars, scrapeVars,
                 chainVars, fetchVars, fnVars>>

\* collect returned or raised in its thread: the papers selected and the
\* callbacks 20 and 30, or no paper, or the exception out of
\* scrape_profile, or the backoff of a rate limit, slept on the thread of
\* the loop.  max_papers is the number the request asked for, read here
\* for the first time.
FetchReturn(j) ==
  /\ loop_thread = 0
  /\ tasks[j].pc = "fetch"
  /\ \E r \in {[todo |-> AfterCollect(o[1], tasks[j].attempt),
                 n |-> Min(Len(o[1].papers), o[2]),
                 cls |-> o[1].cls] :
                  o \in CollectOutcomes \X (1..MaxSelected)} :
       LET todo == r.todo
           n == r.n
       IN
         IF todo = "sleep"
         THEN /\ loop_thread' = j
              /\ tasks' = [tasks EXCEPT ![j].pc = "sleep"]
              /\ UNCHANGED jobs
         ELSE /\ UNCHANGED loop_thread
              /\ IF todo = "return" /\ n > 0
                 THEN /\ jobs' = [jobs EXCEPT ![j] =
                            progress_handler(
                              progress_handler(@, "Sorting papers", 20),
                              "Processing papers", 30)]
                      /\ tasks' = [tasks EXCEPT ![j].pc = "papers",
                                                ![j].attempt = 0,
                                                ![j].n = n]
                 ELSE /\ jobs' = [jobs EXCEPT ![j] =
                            AfterScrape(@, 0, IF todo = "raise" THEN r.cls
                                              ELSE "")]
                      /\ tasks' = [tasks EXCEPT ![j] = TaskDone]
  /\ UNCHANGED <<last_response, selVars, paperVars, scrapeVars, chainVars,
                 fetchVars, fnVars>>

\* time.sleep(wait) returned: the next attempt, up to the await of collect
Wake(j) ==
  /\ loop_thread = j
  /\ tasks[j].pc = "sleep"
  /\ loop_thread' = 0
  /\ tasks' = [tasks EXCEPT ![j].pc = "fetch", ![j].attempt = @ + 1]
  /\ UNCHANGED <<jobs, last_response, selVars, paperVars, scrapeVars,
                 chainVars, fetchVars, fnVars>>

\* _extract_paper_metadata of paper idx + 1 gave a record, nothing or an
\* exception: the callback of the finally clause; after the last paper the
\* callback "Completed", the return of scrape_profile and the rest of
\* run_scrape_job, whose writes of the two files can raise
PaperDone(j) ==
  /\ loop_thread = 0
  /\ tasks[j].pc = "papers"
  /\ \E paper_dict_out \in {"record", "None", "raise"}, exc \in {"", "OSError"} :
       LET idx == tasks[j].idx + 1
           got == tasks[j].got + IF paper_dict_out = "record" THEN 1 ELSE 0
           shown == progress_handler(jobs[j], "Processing papers",
                                     30 + ((idx * 60) \div tasks[j].n))
       IN IF idx < tasks[j].n
          THEN /\ exc = ""
               /\ jobs' = [jobs EXCEPT ![j] = shown]
               /\ tasks' = [tasks EXCEPT ![j].idx = idx, ![j].got = got]
          ELSE /\ exc # "" => got > 0
               /\ jobs' = [jobs EXCEPT ![j] =
                     AfterScrape(progress_handler(shown, "Completed", 100),
                                 got, exc)]
               /\ tasks' = [tasks EXCEPT ![j] = TaskDone]
  /\ UNCHANGED <<loop_thread, last_response, selVars, paperVars, scrapeVars,
                 chainVars, fetchVars, fnVars>>

InitServer ==
  /\ ServerIdle
  /\ SelectIdle
  /\ PaperIdle
  /\ ScrapeIdle
  /\ ChainIdle
  /\ FetchIdle
  /\ FnIdle

NextServer ==
  \/ start_scrape
  \/ scrape_status
  \/ \E j \in DOMAIN tasks :
       \/ run_scrape_job(j)
       \/ ResolveReturn(j)
       \/ FetchReturn(j)
       \/ Wake(j)
       \/ PaperDone(j)

SpecServer == InitServer /\ [][NextServer]_vars

\* C38: the status of a job moves only from queued to running and from
\* running to completed or failed; a completed or failed job never changes
\* again; the result is set exactly when the status is completed, and the
\* percentage of a completed or failed job is 100
C38_JobLifeCycle ==
  /\ [](\A j \in DOMAIN jobs :
          /\ jobs[j].result # <<>> <=> jobs[j].status = "completed"
          /\ jobs[j].status \in {"completed", "failed"} =>
               jobs[j].percentage = 100)
  /\ [][\A j \in DOMAIN jobs :
          /\ \/ jobs'[j].status = jobs[j].status
             \/ <<jobs[j].status, jobs'[j].status>> \in
                  {<<"queued", "running">>, <<"running", "completed">>,
                   <<"running", "failed">>}
          /\ jobs[j].status \in {"completed", "failed"} =>
               jobs'[j] = jobs[j]]_vars

\* one job completed with its result next to a job that failed with the
\* exception of its scrape
C38_Witness ==
  /\ Len(jobs) = 2
  /\ jobs[1].status = "completed"
  /\ jobs[1].result = <<2>>
  /\ jobs[2].status = "failed"
  /\ jobs[2].error = "SemanticScholarException"
  /\ jobs[2].result = <<>>

\* C39: the percentage that a status request reports for a job, the value
\* stored when the loop is between two steps, never goes down, whatever
\* callbacks scrape_profile makes
C39_PercentageNeverDecreases ==
  [][\A j \in DOMAIN jobs : jobs'[j].percentage >= jobs[j].percentage]_vars

\* a status request was answered with the 60 percent of a running job that
\* is through the first of its two papers
C39_Witness ==
  /\ Len(jobs) >= 1
  /\ tasks[1].pc = "papers"
  /\ tasks[1].idx = 1
  /\ jobs[1].percentage = 60
  /\ last_response = [code |-> 200, status |-> "running", percentage |-> 60]

\* C40: while the task of a job waits out the backoff of a rate limit, a
\* status request can be answered and every other task that has a step to
\* take can take it
C40_BackoffLeavesLoopFree ==
  \A j \in DOMAIN tasks :
    tasks[j].pc = "sleep" =>
      /\ ENABLED scrape_status
      /\ \A k \in DOMAIN tasks \ {j} :
           tasks[k].pc \in {"created", "resolve", "fetch", "papers"} =>
             ENABLED (\/ run_scrape_job(k)
                      \/ ResolveReturn(k)
                      \/ FetchReturn(k)
                      \/ PaperDone(k))

====
